---- MODULE Spec2Model ----
(***************************************************************************)
(* NutriFlow (src/nutriflow.ts): the meal-plan generation pipeline.        *)
(*                                                                         *)
(* State: the two insertion-ordered Map caches (foodCache, mealCache), the *)
(* circuit breaker (circuitState), the wall clock read by Date.now(), the  *)
(* Open Food Facts requests in flight, and the position of the one         *)
(* generateMealPlan call and the one food search the main loop runs at a   *)
(* time.  Strings are TLA+ strings; every macro value is in tenths of a    *)
(* unit (15.7 g is 157), so the decimals of the source stay exact.         *)
(***************************************************************************)
EXTENDS Integers, Sequences, FiniteSets, TLC

(***************************************************************************)
(* Bounds of the model                                                     *)
(***************************************************************************)
\* Date.now() advances in steps of TickMs up to MaxNow.
TickMs == 10000
MaxNow == 30000
\* recordFailure is not explored beyond MaxFailures recorded failures.
MaxFailures == 4
\* The remote food database changes its availability at most MaxFlips times.
MaxFlips == 1
\* Entries the caches already hold in the warmed-up initial state.
WarmFill == 48
\* Lookups of rejected parseMeals calls that may still await their response.
MaxInflight == 1

(***************************************************************************)
(* Program constants                                                       *)
(***************************************************************************)
CACHE_SIZE == 50
CIRCUIT_THRESHOLD == 3
CIRCUIT_TIMEOUT_MS == 30000
MAX_RESULTS == 15
MAX_INPUT_LEN == 200

(***************************************************************************)
(* Optional values: None is undefined/null, Some(v) a present value        *)
(***************************************************************************)
None == <<>>
Some(v) == <<v>>

Min(a, b) == IF a <= b THEN a ELSE b
Max(a, b) == IF a >= b THEN a ELSE b

(***************************************************************************)
(* String functions of the runtime, computed character by character        *)
(***************************************************************************)
UpperChars == "ABCDEFGHIJKLMNOPQRSTUVWXYZ"
LowerChars == "abcdefghijklmnopqrstuvwxyz"

CharAt(s, i) == SubSeq(s, i, i)

\* The upper-case letters with their lower-case forms
LowerOf == [c \in {CharAt(UpperChars, i) : i \in 1..Len(UpperChars)} |->
              CharAt(LowerChars, CHOOSE i \in 1..Len(UpperChars) : CharAt(UpperChars, i) = c)]

lowerChar(c) == IF c \in DOMAIN LowerOf THEN LowerOf[c] ELSE c

RECURSIVE toLowerCase(_)
toLowerCase(s) ==
    IF Len(s) = 0 THEN ""
    ELSE lowerChar(CharAt(s, 1)) \o toLowerCase(SubSeq(s, 2, Len(s)))

isSpace(c) == c \in {" ", "\t", "\n"}

RECURSIVE trimStart(_)
trimStart(s) ==
    IF Len(s) > 0 /\ isSpace(CharAt(s, 1)) THEN trimStart(SubSeq(s, 2, Len(s))) ELSE s

RECURSIVE trimEnd(_)
trimEnd(s) ==
    IF Len(s) > 0 /\ isSpace(CharAt(s, Len(s))) THEN trimEnd(SubSeq(s, 1, Len(s) - 1)) ELSE s

trim(s) == trimEnd(trimStart(s))

\* String.prototype.includes
includes(s, t) == \E i \in 0..(Len(s) - Len(t)) : SubSeq(s, i + 1, i + Len(t)) = t

\* s.slice(0, n)
sliceStr(s, n) == SubSeq(s, 1, Min(n, Len(s)))

\* s.replace(/[<>]/g, "")
RECURSIVE stripAngle(_)
stripAngle(s) ==
    IF Len(s) = 0 THEN ""
    ELSE (IF CharAt(s, 1) \in {"<", ">"} THEN "" ELSE CharAt(s, 1))
         \o stripAngle(SubSeq(s, 2, Len(s)))

sanitizeInput(input) == stripAngle(sliceStr(trim(input), MAX_INPUT_LEN))

(***************************************************************************)
(* Foods                                                                   *)
(***************************************************************************)
Food(n, p, c, f, fi, cal) ==
    [name |-> n, protein |-> p, carbs |-> c, fat |-> f, fiber |-> fi, calories |-> cal]

FALLBACK_FOODS ==
    << Food("Tofu, firm", 157, 43, 87, 23, 1440),
       Food("Tempeh", 213, 18, 109, 61, 2080),
       Food("Green lentils in water", 60, 120, 5, 41, 820),
       Food("Chickpeas in water", 72, 234, 22, 74, 1270),
       Food("Shelled Hemp", 350, 11, 520, 45, 6170),
       Food("Nutritional yeast", 506, 100, 48, 232, 3320) >>

\* A raw product record of the remote database: each field may be absent.
Product(name, kcalDash, kcalUnder, proteins, carbohydrates, fat, fiber) ==
    Some([product_name |-> name,
          nutriments |-> Some([energy_kcal_dash |-> kcalDash, energy_kcal_100g |-> kcalUnder,
                               proteins_100g |-> proteins, carbohydrates_100g |-> carbohydrates,
                               fat_100g |-> fat, fiber_100g |-> fiber])])

ProductNoNutriments(name) == Some([product_name |-> name, nutriments |-> None])

\* a || 0 on an optional number: undefined and 0 are falsy
Truthy(o) == o # None /\ o[1] # 0
OrZero(o) == IF Truthy(o) THEN o[1] ELSE 0

parseOpenFoodFactsProduct(product) ==
    IF product = None \/ product[1].nutriments = None THEN None
    ELSE LET n == product[1].nutriments[1]
             rawName == product[1].product_name
             name == IF rawName = None THEN "" ELSE trim(rawName[1])
             calories == IF Truthy(n.energy_kcal_dash) THEN n.energy_kcal_dash[1]
                         ELSE OrZero(n.energy_kcal_100g)
             protein == OrZero(n.proteins_100g)
             carbs == OrZero(n.carbohydrates_100g)
             fat == OrZero(n.fat_100g)
             fiber == OrZero(n.fiber_100g)
         IN  IF name = "" THEN None
             ELSE IF calories = 0 /\ protein = 0 THEN None
             ELSE Some(Food(sanitizeInput(name), Max(0, protein), Max(0, carbs),
                            Max(0, fat), Max(0, fiber), Max(0, calories)))

\* The filter of searchOpenFoodFacts: 3 g is 30 tenths.
passesNutritionFilter(f) ==
    f # None /\ f[1].calories > 0 /\ (f[1].protein >= 30 \/ f[1].fiber >= 30)

RECURSIVE mapFilterProducts(_)
mapFilterProducts(products) ==
    IF products = <<>> THEN <<>>
    ELSE LET f == parseOpenFoodFactsProduct(Head(products))
         IN  (IF passesNutritionFilter(f) THEN <<f[1]>> ELSE <<>>)
             \o mapFilterProducts(Tail(products))

foodsOfResponse(products) ==
    LET all == mapFilterProducts(products)
    IN  SubSeq(all, 1, Min(MAX_RESULTS, Len(all)))

searchFallbackFoods(query) ==
    LET term == trim(toLowerCase(query))
    IN  SelectSeq(FALLBACK_FOODS, LAMBDA food : includes(toLowerCase(food.name), term))

normalizeTerm(query) == trim(toLowerCase(query))

(***************************************************************************)
(* The remote food database: what a successful query for `query` returns   *)
(***************************************************************************)
RemoteProducts(query) ==
    CASE query = "tofu" ->
           << Product(Some("Tofu, firm"), Some(1440), None, Some(157), Some(43), Some(87), Some(23)),
              Product(Some("Rice drink"), Some(500), None, Some(10), Some(90), Some(10), Some(0)),
              ProductNoNutriments(Some("Tofu spread")),
              Product(None, Some(900), None, Some(100), None, None, None) >>
      [] query = " Tofu " ->
           << Product(Some(" Silken <tofu> "), None, Some(620), Some(29), Some(24), Some(27), None) >>
      [] query = "tempeh" ->
           << Product(Some("Tempeh nature"), Some(1660), None, Some(190), Some(20), Some(80), Some(60)),
              Product(Some("Smoked tempeh"), Some(1900), None, Some(220), Some(30), Some(90), Some(50)) >>
      [] query = "hemp seeds" ->
           << Product(Some("Hemp hearts"), Some(5800), None, Some(310), Some(50), Some(480), Some(40)) >>
      [] query = "kale" ->
           << Product(Some("Kale"), Some(350), None, Some(29), Some(44), Some(15), Some(41)) >>
      [] query = "quinoa" ->
           << Product(Some("Quinoa"), Some(0), None, Some(140), Some(640), Some(60), Some(70)),
              Product(Some("Water"), Some(0), Some(0), Some(0), None, None, None) >>
      [] OTHER -> <<>>

\* The queries that reach searchOpenFoodFacts in this model, each with its cache
\* key, the foods a successful response yields and its static matches
KnownQueries ==
    {"tofu", " Tofu ", "<TEMP> ", "TEMP", "k1", "tempeh", "seitan", "hemp seeds",
     "nutritional yeast", "spinach", "red lentils", "quinoa", "kale", "tahini",
     "sweet potato", "broccoli", "pumpkin seeds"}

QueryTable ==
    [q \in KnownQueries |->
        [key |-> normalizeTerm(q),
         remote |-> foodsOfResponse(RemoteProducts(q)),
         static |-> searchFallbackFoods(q)]]

KeyOf(query) ==
    IF query \in KnownQueries THEN QueryTable[query].key ELSE normalizeTerm(query)
RemoteFoods(query) ==
    IF query \in KnownQueries THEN QueryTable[query].remote
    ELSE foodsOfResponse(RemoteProducts(query))
StaticFoods(query) ==
    IF query \in KnownQueries THEN QueryTable[query].static ELSE searchFallbackFoods(query)

(***************************************************************************)
(* Insertion-ordered Map with the size-triggered eviction of both caches   *)
(***************************************************************************)
CacheKeys(cache) == {cache[i].key : i \in DOMAIN cache}
CacheHas(cache, k) == \E i \in DOMAIN cache : cache[i].key = k
CacheGet(cache, k) == cache[CHOOSE i \in DOMAIN cache : cache[i].key = k].val

\* Map.prototype.set: an existing key keeps its place, a new key goes last
MapSet(cache, k, v) ==
    IF CacheHas(cache, k)
    THEN [i \in DOMAIN cache |-> IF cache[i].key = k THEN [key |-> k, val |-> v] ELSE cache[i]]
    ELSE Append(cache, [key |-> k, val |-> v])

\* Variant of EvictIfFull that evicts only above the capacity (sensitivity of C9)
EvictIfOverfull(cache) == IF Len(cache) > CACHE_SIZE THEN Tail(cache) ELSE cache

\* if (cache.size >= CACHE_SIZE) delete the first key
EvictIfFull(cache) == IF Len(cache) >= CACHE_SIZE THEN Tail(cache) ELSE cache

CacheInsert(cache, k, v) == MapSet(EvictIfFull(cache), k, v)

(***************************************************************************)
(* State                                                                   *)
(***************************************************************************)
VARIABLES
    now,           \* Date.now(), in ms
    circuitState,  \* [failures, lastFailure]
    foodCache,     \* Map: normalized term -> foods, in insertion order
    mealCache,     \* Map: plan key -> meals, in insertion order
    offMode,       \* the remote food database: "up" or "down"
    flips,         \* how often offMode has changed
    inflight,      \* the Open Food Facts requests awaiting their response
    srch,          \* the food lookup the caller is running
    gen,           \* the generateMealPlan call the main loop is running
    hist,          \* history: recordFailure calls since the last recordSuccess
    profile,       \* main's profile: None until a setup succeeds
    targets,       \* main's targets: None until a setup succeeds
    menu,          \* the position of the main loop
    call           \* one call of a pure function: its argument and its result

vars == <<now, circuitState, foodCache, mealCache, offMode, flips, inflight, srch, gen, hist,
          profile, targets, menu, call>>

OffFailKinds == {"network", "timeout", "status"}
LookupFns == {"searchOpenFoodFacts", "searchFoods", "findOrCreateFood"}

\* The terms the caller passes to the food lookup functions.
SearchTerms == {"tofu", " Tofu ", "<TEMP> ", "k1"}

(***************************************************************************)
(* Food lookup: searchOpenFoodFacts and its two wrappers                   *)
(***************************************************************************)
\* Variant of PlaceholderFood with empty macro values (sensitivity of C13)
PlaceholderFoodZero(sanitizedName) == Food(sanitizedName, 0, 0, 0, 0, 0)

PlaceholderFood(sanitizedName) == Food(sanitizedName, 80, 150, 30, 50, 1200)

\* Variant of searchFoodsResult without the static table (sensitivity of C11)
searchFoodsResultNoStatic(query, apiResults) == apiResults

\* searchFoods, after searchOpenFoodFacts returned apiResults
searchFoodsResult(query, apiResults) ==
    IF Len(apiResults) > 0 THEN apiResults ELSE StaticFoods(query)

\* findOrCreateFood, after searchFoods returned: found[0] || placeholder
findOrCreateResult(sanitizedName, apiResults) ==
    LET found == searchFoodsResult(sanitizedName, apiResults)
    IN  IF Len(found) > 0 THEN found[1] ELSE PlaceholderFood(sanitizedName)

\* What the caller of `fn` gets once searchOpenFoodFacts(query) returned apiResults
ResultVia(fn, query, apiResults) ==
    CASE fn = "searchOpenFoodFacts" -> apiResults
      [] fn = "searchFoods" -> searchFoodsResult(query, apiResults)
      [] fn = "findOrCreateFood" -> findOrCreateResult(query, apiResults)

\* The query searchOpenFoodFacts receives when `fn` is called with `term`
QueryOf(fn, term) == IF fn = "findOrCreateFood" THEN sanitizeInput(term) ELSE term

\* searchOpenFoodFacts up to its await: a cached key is answered from the Map
CacheHit(cache, query) == CacheHas(cache, KeyOf(query))

\* searchOpenFoodFacts after its await, on a successful response
FoodCacheAfterOk(cache, query) ==
    CacheInsert(cache, KeyOf(query), RemoteFoods(query))

\* The value searchOpenFoodFacts returns after its await
ApiResultsAfter(query, ok) ==
    IF ok THEN RemoteFoods(query) ELSE StaticFoods(query)

Request(owner, fn, query) == [owner |-> owner, fn |-> fn, query |-> query]

RemoveAt(seq, i) == SubSeq(seq, 1, i - 1) \o SubSeq(seq, i + 1, Len(seq))

\* main before its first menu prompt, and no pure-function call under way
IdleMenu == [pc |-> "menu"]
NoCall == [fn |-> ""]

IdleSrch == [pc |-> "idle", fn |-> "", term |-> "", query |-> "", requested |-> FALSE,
             failed |-> "", result |-> <<>>]
IdleGen == [pc |-> "idle", key |-> "", maxPrepTime |-> 0, outcome |-> "",
            parse |-> "", source |-> "", requests |-> 0, nFail |-> 0, nSucc |-> 0,
            result |-> <<>>]

(***************************************************************************)
(* A caller's food lookup: searchAndDisplayFoods of the main loop, or a    *)
(* direct call of one of the three lookup functions                        *)
(***************************************************************************)
SearchStart(fn, term) ==
    /\ srch.pc # "wait"
    /\ LET query == QueryOf(fn, term)
       IN  IF CacheHit(foodCache, query)
           THEN /\ srch' = [pc |-> "done", fn |-> fn, term |-> term, query |-> query,
                            requested |-> FALSE, failed |-> "",
                            result |-> ResultVia(fn, query,
                                                 CacheGet(foodCache, KeyOf(query)))]
                /\ UNCHANGED inflight
           ELSE /\ srch' = [pc |-> "wait", fn |-> fn, term |-> term, query |-> query,
                            requested |-> TRUE, failed |-> "", result |-> <<>>]
                /\ inflight' = Append(inflight, Request("search", fn, query))
    /\ UNCHANGED <<call, menu, profile, targets, now, circuitState, foodCache, mealCache, offMode, flips, gen, hist>>

\* The response to the caller's search arrives and is a success
SearchOk(i) ==
    /\ inflight[i].owner = "search"
    /\ offMode = "up"
    /\ LET query == inflight[i].query
       IN  /\ foodCache' = FoodCacheAfterOk(foodCache, query)
           /\ srch' = [srch EXCEPT !.pc = "done",
                                   !.result = ResultVia(srch.fn, query, ApiResultsAfter(query, TRUE))]
    /\ inflight' = RemoveAt(inflight, i)
    /\ UNCHANGED <<call, menu, profile, targets, now, circuitState, mealCache, offMode, flips, gen, hist>>

\* Variant of SearchFail that stores the static matches (sensitivity of C10)
SearchFailCaching(i, kind) ==
    /\ inflight[i].owner = "search"
    /\ offMode = "down"
    /\ LET query == inflight[i].query
       IN  /\ foodCache' = CacheInsert(foodCache, KeyOf(query), StaticFoods(query))
           /\ srch' = [srch EXCEPT !.pc = "done", !.failed = kind,
                                   !.result = ResultVia(srch.fn, query, ApiResultsAfter(query, FALSE))]
    /\ inflight' = RemoveAt(inflight, i)
    /\ UNCHANGED <<call, menu, profile, targets, now, circuitState, mealCache, offMode, flips, gen, hist>>

\* The request fails: network error, 8 s timeout or non-success status
SearchFail(i, kind) ==
    /\ inflight[i].owner = "search"
    /\ offMode = "down"
    /\ LET query == inflight[i].query
       IN  srch' = [srch EXCEPT !.pc = "done", !.failed = kind,
                                !.result = ResultVia(srch.fn, query, ApiResultsAfter(query, FALSE))]
    /\ inflight' = RemoveAt(inflight, i)
    /\ UNCHANGED <<call, menu, profile, targets, now, circuitState, foodCache, mealCache, offMode, flips, gen, hist>>

(***************************************************************************)
(* Circuit breaker                                                         *)
(***************************************************************************)
\* Variant of isCircuitOpen that needs more than the threshold (sensitivity of C4)
isCircuitOpenAbove(cs, t) ==
    cs.failures > CIRCUIT_THRESHOLD /\ (t - cs.lastFailure) < CIRCUIT_TIMEOUT_MS

\* Variant of isCircuitOpen that never lets the breaker cool down
\* (sensitivity of C21)
isCircuitOpenNoTimeout(cs, t) == cs.failures >= CIRCUIT_THRESHOLD

isCircuitOpen(cs, t) ==
    cs.failures >= CIRCUIT_THRESHOLD /\ (t - cs.lastFailure) < CIRCUIT_TIMEOUT_MS

recordSuccess(cs) == [cs EXCEPT !.failures = 0]

\* Variant of recordFailure that counts the failure twice (sensitivity of C6)
recordFailureTwice(cs, t) == [failures |-> cs.failures + 2, lastFailure |-> t]

recordFailure(cs, t) == [failures |-> cs.failures + 1, lastFailure |-> t]

(***************************************************************************)
(* The food lookups a generateMealPlan call makes one after another        *)
(***************************************************************************)
\* One whole lookup of `query` by `fn`: the cached list, or the request and its
\* outcome
LookupQuery(cache, fn, query, ok) ==
    IF CacheHit(cache, query)
    THEN [cache |-> cache,
          value |-> ResultVia(fn, query, CacheGet(cache, KeyOf(query)))]
    ELSE [cache |-> IF ok THEN FoodCacheAfterOk(cache, query) ELSE cache,
          value |-> ResultVia(fn, query, ApiResultsAfter(query, ok))]

LookupStep(cache, fn, term, ok) == LookupQuery(cache, fn, QueryOf(fn, term), ok)

PrependValue(value, rest) == [cache |-> rest.cache, values |-> <<value>> \o rest.values]

\* The awaited lookups of a loop, each starting from the cache the one before left
RECURSIVE LookupSeq(_, _, _, _)
LookupRest(one, fn, terms, ok) ==
    PrependValue(one.value, LookupSeq(one.cache, fn, terms, ok))

LookupSeq(cache, fn, terms, ok) ==
    IF terms = <<>> THEN [cache |-> cache, values |-> <<>>]
    ELSE LookupRest(LookupStep(cache, fn, Head(terms), ok), fn, Tail(terms), ok)

RECURSIVE Flatten(_)
Flatten(lists) == IF lists = <<>> THEN <<>> ELSE Head(lists) \o Flatten(Tail(lists))

\* Array.prototype.sort((a, b) => b.protein - a.protein): stable, descending
RECURSIVE insertByProtein(_, _)
insertByProtein(sorted, x) ==
    IF sorted = <<>> THEN <<x>>
    ELSE IF Head(sorted).protein >= x.protein
         THEN <<Head(sorted)>> \o insertByProtein(Tail(sorted), x)
         ELSE <<x>> \o sorted

RECURSIVE sortByProteinDesc(_)
sortByProteinDesc(xs) ==
    IF xs = <<>> THEN <<>>
    ELSE insertByProtein(sortByProteinDesc(SubSeq(xs, 1, Len(xs) - 1)), xs[Len(xs)])

HighProteinQueries == <<"tofu", "tempeh", "seitan", "hemp seeds", "nutritional yeast">>

\* filter(protein >= 15).sort(...).slice(0, 10): 15 g is 150 tenths
topByProtein(allFoods) ==
    LET sorted == sortByProteinDesc(SelectSeq(allFoods, LAMBDA food : food.protein >= 150))
    IN  SubSeq(sorted, 1, Min(10, Len(sorted)))

HighProteinOf(r) == [cache |-> r.cache, foods |-> topByProtein(Flatten(r.values))]

getHighProteinFoods(cache, ok) ==
    HighProteinOf(LookupSeq(cache, "searchOpenFoodFacts", HighProteinQueries, ok))

\* The ingredients generateFallbackMeals resolves through findOrCreateFood, in order
TemplateIngredients ==
    <<"spinach", "hemp seeds", "nutritional yeast", "red lentils", "quinoa", "kale",
      "tahini", "sweet potato", "broccoli", "pumpkin seeds">>

Ingredient(food, grams) == [food |-> food, grams |-> grams]

\* Variant of templatePrepTime that keeps the template's minutes (sensitivity of C3)
templatePrepTimeFixed(maxTime, minutes) == minutes

\* Math.min(maxTime, minutes) of each meal template
templatePrepTime(maxTime, minutes) == Min(maxTime, minutes)

\* The three meal templates over the resolved foods
fallbackTemplates(first, second, f, maxTime) ==
    << [name |-> "High-Protein Tofu Scramble Bowl", type |-> "breakfast",
        foods |-> << Ingredient(first, 200), Ingredient(f[1], 100),
                     Ingredient(f[2], 15), Ingredient(f[3], 10) >>,
        prepTime |-> templatePrepTime(maxTime, 15),
        instructions |-> << "Heat pan with oil", "Crumble tofu and saute 5 min",
                            "Add spinach until wilted",
                            "Top with hemp seeds and nutritional yeast" >>],
       [name |-> "Power Lentil & Quinoa One-Pot", type |-> "lunch",
        foods |-> << Ingredient(f[4], 150), Ingredient(f[5], 100),
                     Ingredient(f[6], 80), Ingredient(f[7], 20) >>,
        prepTime |-> templatePrepTime(maxTime, 25),
        instructions |-> << "Combine lentils, quinoa, and 3 cups water in pot",
                            "Simmer 20 min until tender",
                            "Stir in chopped kale last 2 min",
                            "Serve with tahini drizzle" >>],
       [name |-> "Tempeh & Vegetable Sheet Pan", type |-> "dinner",
        foods |-> << Ingredient(second, 150), Ingredient(f[8], 200),
                     Ingredient(f[9], 150), Ingredient(f[10], 20) >>,
        prepTime |-> templatePrepTime(maxTime, 30),
        instructions |-> << "Cube tempeh and vegetables",
                            "Toss with oil and seasonings on tray",
                            "Roast at 200 C for 25 min",
                            "Sprinkle with pumpkin seeds before serving" >>] >>

FallbackPlanOf(highProtein, ing, maxTime) ==
    [cache |-> ing.cache,
     meals |-> fallbackTemplates(
                 IF Len(highProtein) >= 1 THEN highProtein[1] ELSE FALLBACK_FOODS[1],
                 IF Len(highProtein) >= 2 THEN highProtein[2] ELSE FALLBACK_FOODS[2],
                 ing.values, maxTime)]

ResolveTemplates(hp, maxTime, ok) ==
    FallbackPlanOf(hp.foods, LookupSeq(hp.cache, "findOrCreateFood", TemplateIngredients, ok),
                   maxTime)

generateFallbackMeals(cache, maxTime, ok) ==
    ResolveTemplates(getHighProteinFoods(cache, ok), maxTime, ok)

(***************************************************************************)
(* The decoded response of the AI backend.  A JSON value is a tagged tuple;*)
(* a body is the outcome of the text steps of parseMeals (last line,       *)
(* envelope, code block, object substring, JSON.parse) with the decoded    *)
(* meals list when those steps succeed.                                    *)
(***************************************************************************)
JAbsent == <<"absent">>
JNull == <<"null">>
JNum(n) == <<"num", n>>
JStr(str) == <<"str", str>>
JArr(xs) == <<"arr", xs>>
JObj(r) == <<"obj", r>>

Tag(v) == v[1]
IsNullish(v) == Tag(v) \in {"absent", "null"}
IsFalsy(v) ==
    \/ IsNullish(v)
    \/ (Tag(v) = "num" /\ v[2] = 0)
    \/ (Tag(v) = "str" /\ v[2] = "")
\* v.f on a value that is not null or undefined
Prop(v, f) == IF Tag(v) = "obj" /\ f \in DOMAIN v[2] THEN v[2][f] ELSE JAbsent

MealObj(name, type, foods, prepTime, instructions) ==
    JObj([name |-> name, type |-> type, foods |-> foods, prepTime |-> prepTime,
          instructions |-> instructions])
FoodObj(name, grams) == JObj([name |-> name, grams |-> grams])

\* Number(v) || d, for the values the bodies hold: a non-zero number is kept
NumberOr(v, d) == IF Tag(v) = "num" /\ v[2] # 0 THEN v[2] ELSE d

\* (meal.foods || []): the list, and whether .map on it throws
FoodsList(meal) ==
    LET v == Prop(meal, "foods") IN IF Tag(v) = "arr" THEN v[2] ELSE <<>>
FoodsThrows(meal) ==
    LET v == Prop(meal, "foods") IN ~IsFalsy(v) /\ Tag(v) # "arr"

\* f.name of null, or input.trim() of a name that is no string, throws
IngredientThrows(f) == IsNullish(f) \/ Tag(Prop(f, "name")) # "str"

\* The meal's callback rejects before any response arrives
MealRejectsEarly(meal) ==
    \/ IsNullish(meal)
    \/ FoodsThrows(meal)
    \/ \E j \in DOMAIN FoodsList(meal) : IngredientThrows(FoodsList(meal)[j])

NameThrows(meal) ==
    LET v == Prop(meal, "name") IN ~IsFalsy(v) /\ Tag(v) # "str"
InstructionsThrow(meal) ==
    LET v == Prop(meal, "instructions")
    IN  /\ ~IsFalsy(v)
        /\ \/ Tag(v) # "arr"
           \/ \E k \in DOMAIN v[2] : Tag(v[2][k]) # "str"

\* The meal's callback rejects once its ingredients are resolved
MealRejectsLate(meal) ==
    ~MealRejectsEarly(meal) /\ (NameThrows(meal) \/ InstructionsThrow(meal))

\* The lookups the callbacks start before the first await returns, in order
RECURSIVE IssuedOfFoods(_, _, _)
IssuedOfFoods(m, fs, j) ==
    IF j > Len(fs) THEN <<>>
    ELSE (IF IngredientThrows(fs[j]) THEN <<>>
          ELSE << [m |-> m, j |-> j, query |-> sanitizeInput(Prop(fs[j], "name")[2])] >>)
         \o IssuedOfFoods(m, fs, j + 1)

RECURSIVE IssuedFrom(_, _)
IssuedFrom(ms, m) ==
    IF m > Len(ms) THEN <<>>
    ELSE (IF IsNullish(ms[m]) \/ FoodsThrows(ms[m]) THEN <<>>
          ELSE IssuedOfFoods(m, FoodsList(ms[m]), 1))
         \o IssuedFrom(ms, m + 1)

Issued(ms) == IssuedFrom(ms, 1)

\* The issued lookups that are not answered from the cache
MissSlots(ms, cache) ==
    {k \in DOMAIN Issued(ms) : ~CacheHit(cache, Issued(ms)[k].query)}

Perms(S) ==
    {p \in [1..Cardinality(S) -> S] : \A a, b \in 1..Cardinality(S) : a # b => p[a] # p[b]}

SetMax(S) == CHOOSE x \in S : \A y \in S : y <= x
SetMin(S) == CHOOSE x \in S : \A y \in S : x <= y

\* The position in the arrival order at which meal m has all its responses
LastArrival(slots, perm, m) ==
    SetMax({0} \cup {pos \in DOMAIN perm : slots[perm[pos]].m = m})

\* How many responses arrive before Promise.all settles
ArrivalsAwaited(ms, slots, perm) ==
    LET early == \E m \in DOMAIN ms : MealRejectsEarly(ms[m])
        late == {m \in DOMAIN ms : MealRejectsLate(ms[m])}
    IN  IF early THEN 0
        ELSE IF late # {} THEN SetMin({LastArrival(slots, perm, m) : m \in late})
        ELSE Len(perm)

RECURSIVE ArriveAll(_, _, _)
ArriveAll(cache, queries, ok) ==
    IF queries = <<>> THEN cache
    ELSE ArriveAll(IF ok THEN FoodCacheAfterOk(cache, Head(queries)) ELSE cache,
                   Tail(queries), ok)

\* Variant of VALID_TYPES with a fifth type (sensitivity of C16)
ValidTypesWithBrunch == {"breakfast", "lunch", "dinner", "snack", "brunch"}

VALID_TYPES == {"breakfast", "lunch", "dinner", "snack"}

Clamp(lo, hi, x) == Max(lo, Min(hi, x))

\* findOrCreateFood(f.name) of the parser: the cache is read when the call starts
ParsedFood(cache, name, ok) ==
    LET query == sanitizeInput(name)
    IN  findOrCreateResult(query,
            IF CacheHit(cache, query) THEN CacheGet(cache, KeyOf(query))
            ELSE ApiResultsAfter(query, ok))

RECURSIVE ParsedFoods(_, _, _)
ParsedFoods(cache, fs, ok) ==
    IF fs = <<>> THEN <<>>
    ELSE << Ingredient(ParsedFood(cache, Prop(Head(fs), "name")[2], ok),
                       Clamp(1, 1000, NumberOr(Prop(Head(fs), "grams"), 100))) >>
         \o ParsedFoods(cache, Tail(fs), ok)

RECURSIVE SanitizeAll(_)
SanitizeAll(xs) ==
    IF xs = <<>> THEN <<>> ELSE <<sanitizeInput(Head(xs)[2])>> \o SanitizeAll(Tail(xs))

ParsedMeal(cache, meal, ok) ==
    LET nameV == Prop(meal, "name")
        typeV == Prop(meal, "type")
        instrV == Prop(meal, "instructions")
        instr == IF Tag(instrV) = "arr" THEN SanitizeAll(instrV[2]) ELSE <<>>
    IN  [name |-> sanitizeInput(IF IsFalsy(nameV) THEN "Unnamed Meal" ELSE nameV[2]),
         type |-> IF Tag(typeV) = "str" /\ typeV[2] \in VALID_TYPES THEN typeV[2] ELSE "snack",
         foods |-> ParsedFoods(cache, FoodsList(meal), ok),
         prepTime |-> Clamp(5, 120, NumberOr(Prop(meal, "prepTime"), 20)),
         instructions |-> SubSeq(instr, 1, Min(6, Len(instr)))]

RECURSIVE ParsedMeals(_, _, _)
ParsedMeals(cache, ms, ok) ==
    IF ms = <<>> THEN <<>>
    ELSE <<ParsedMeal(cache, Head(ms), ok)>> \o ParsedMeals(cache, Tail(ms), ok)

RECURSIVE QueriesOf(_, _, _, _)
QueriesOf(slots, perm, from, to) ==
    IF from > to THEN <<>>
    ELSE <<slots[perm[from]].query>> \o QueriesOf(slots, perm, from + 1, to)

\* Promise.all over the decoded meal list ms, whose lookups are slots
ParseOutcome(rejected, awaited, ms, slots, cache, ok, perm) ==
    [status |-> IF rejected THEN "rejected" ELSE "meals",
     meals |-> IF rejected THEN <<>>
               ELSE SubSeq(ParsedMeals(cache, ms, ok), 1, Min(6, Len(ms))),
     cache |-> ArriveAll(cache, QueriesOf(slots, perm, 1, awaited), ok),
     orphans |-> QueriesOf(slots, perm, awaited + 1, Len(perm))]

parseDecoded(ms, slots, cache, ok, perm) ==
    ParseOutcome(\E m \in DOMAIN ms : MealRejectsEarly(ms[m]) \/ MealRejectsLate(ms[m]),
                 ArrivalsAwaited(ms, slots, perm), ms, slots, cache, ok, perm)

\* parseMeals(responseText), the responses to its lookups arriving in the order
\* perm: "null", a meal list, or a rejection that leaves lookups in flight
parseMeals(body, cache, ok, perm) ==
    IF body.kind # "meals"
    THEN [status |-> "null", meals |-> <<>>, cache |-> cache, orphans |-> <<>>]
    ELSE parseDecoded(body.meals, Issued(body.meals), cache, ok, perm)

\* The bodies the backend answers with
ResponseBodies ==
    << [kind |-> "noLines", meals |-> <<>>],
       [kind |-> "badEnvelope", meals |-> <<>>],
       [kind |-> "noJson", meals |-> <<>>],
       [kind |-> "badMealJson", meals |-> <<>>],
       [kind |-> "noMealsField", meals |-> <<>>],
       [kind |-> "meals", meals |-> <<>>],
       [kind |-> "meals", meals |->
          << MealObj(JStr(" Tofu <bowl> "), JStr("breakfast"),
                     JArr(<< FoodObj(JStr("tofu"), JNum(200)),
                             FoodObj(JStr("kale"), JNum(50000)) >>),
                     JNum(500), JArr(<< JStr("Press the tofu"), JStr(" Serve ") >>)),
             JNum(5) >>],
       [kind |-> "meals", meals |-> << JNull >>],
       [kind |-> "meals", meals |->
          << MealObj(JAbsent, JStr("lunch"), JArr(<< FoodObj(JStr("tempeh"), JAbsent) >>),
                     JAbsent, JAbsent),
             MealObj(JNum(7), JAbsent, JAbsent, JAbsent, JAbsent) >>],
       [kind |-> "meals", meals |->
          << MealObj(JStr("Bowl"), JStr("dinner"),
                     JArr(<< FoodObj(JStr("tofu"), JNum(100)), FoodObj(JNum(5), JNum(100)) >>),
                     JNum(30), JAbsent) >>] >>

(***************************************************************************)
(* generateMealPlan                                                        *)
(***************************************************************************)
BackendFailKinds == {"network", "timeout", "status"}

Targets(calories, protein, carbs, fat, fiber) ==
    [calories |-> calories, protein |-> protein, carbs |-> carbs, fat |-> fat, fiber |-> fiber]

\* The (targets, preferences, maxPrepTime) the main loop calls generateMealPlan with
GenInputs ==
    << [targets |-> Targets(1907, 117, 163, 87, 38), preferences |-> <<"tofu", "kale">>,
        maxPrepTime |-> 20],
       [targets |-> Targets(1907, 117, 163, 87, 38), preferences |-> <<"tofu,kale">>,
        maxPrepTime |-> 20],
       [targets |-> Targets(2008, 117, 163, 99, 40), preferences |-> <<>>,
        maxPrepTime |-> 10] >>

\* JSON.stringify(targets)
stringifyTargets(t) ==
    "{\"calories\":" \o ToString(t.calories) \o ",\"protein\":" \o ToString(t.protein)
    \o ",\"carbs\":" \o ToString(t.carbs) \o ",\"fat\":" \o ToString(t.fat)
    \o ",\"fiber\":" \o ToString(t.fiber) \o "}"

RECURSIVE join(_, _)
join(xs, sep) ==
    IF xs = <<>> THEN ""
    ELSE IF Len(xs) = 1 THEN xs[1]
    ELSE xs[1] \o sep \o join(Tail(xs), sep)

planCacheKey(t, preferences, maxPrepTime) ==
    stringifyTargets(t) \o "_" \o join(preferences, ",") \o "_" \o ToString(maxPrepTime)

\* Variant of GenNextPc without the breaker test (sensitivity of C5)
GenNextPcNoBreaker(hit, open) == IF hit THEN "done" ELSE "fetch"

\* Variant of GenNextPc that tests the breaker before the cache (sensitivity of C8)
GenNextPcBreakerFirst(hit, open) ==
    IF open THEN "fallback" ELSE IF hit THEN "done" ELSE "fetch"

\* Where the call goes before its first await: the cached plan, the fallback
\* builder (breaker open) or the backend request
GenNextPc(hit, open) ==
    IF hit THEN "done" ELSE IF open THEN "fallback" ELSE "fetch"

\* Variant of NoMeals without the length test (sensitivity of C1)
NoMealsNullOnly(parsed) == parsed.status = "null"

\* !meals || meals.length === 0
NoMeals(parsed) == parsed.status = "null" \/ Len(parsed.meals) = 0

\* Variant of GenerateStart in which a call that finds the breaker open moves
\* lastFailure to the current time (sensitivity of C27)
GenerateStartTouching(k) ==
    /\ gen.pc \in {"idle", "done"}
    /\ srch.pc # "wait"
    /\ LET inp == GenInputs[k]
           key == planCacheKey(inp.targets, inp.preferences, inp.maxPrepTime)
           hit == CacheHas(mealCache, key)
           next == GenNextPc(hit, isCircuitOpen(circuitState, now))
       IN  /\ gen' = [pc |-> next, key |-> key, maxPrepTime |-> inp.maxPrepTime,
                      outcome |-> "", parse |-> "",
                      source |-> IF next = "done" THEN "cache" ELSE "",
                      requests |-> IF next = "fetch" THEN 1 ELSE 0,
                      nFail |-> 0, nSucc |-> 0,
                      result |-> IF next = "done" /\ hit THEN CacheGet(mealCache, key) ELSE <<>>]
           /\ circuitState' = IF next = "fallback"
                               THEN [circuitState EXCEPT !.lastFailure = now]
                               ELSE circuitState
    /\ UNCHANGED <<call, menu, profile, targets, now, foodCache, mealCache, offMode, flips, inflight, srch, hist>>

GenerateStart(k) ==
    /\ gen.pc \in {"idle", "done"}
    /\ srch.pc # "wait"
    /\ LET inp == GenInputs[k]
           key == planCacheKey(inp.targets, inp.preferences, inp.maxPrepTime)
           hit == CacheHas(mealCache, key)
           next == GenNextPc(hit, isCircuitOpen(circuitState, now))
       IN  gen' = [pc |-> next, key |-> key, maxPrepTime |-> inp.maxPrepTime,
                   outcome |-> "", parse |-> "",
                   source |-> IF next = "done" THEN "cache" ELSE "",
                   requests |-> IF next = "fetch" THEN 1 ELSE 0,
                   nFail |-> 0, nSucc |-> 0,
                   result |-> IF next = "done" /\ hit THEN CacheGet(mealCache, key) ELSE <<>>]
    /\ UNCHANGED <<call, menu, profile, targets, now, circuitState, foodCache, mealCache, offMode, flips, inflight, srch, hist>>

\* Variant of GenFetchFail that issues the request again (sensitivity of C22)
GenFetchFailRetrying(kind) ==
    /\ gen.pc = "fetch"
    /\ circuitState.failures < MaxFailures
    /\ circuitState' = recordFailure(circuitState, now)
    /\ hist' = [consec |-> hist.consec + 1, lastFailAt |-> now]
    /\ gen' = [gen EXCEPT !.outcome = kind, !.nFail = @ + 1, !.requests = @ + 1]
    /\ UNCHANGED <<call, menu, profile, targets, now, foodCache, mealCache, offMode, flips, inflight, srch>>

\* The backend request fails: connection error, 300 s timeout or non-success status
GenFetchFail(kind) ==
    /\ gen.pc = "fetch"
    /\ circuitState.failures < MaxFailures
    /\ circuitState' = recordFailure(circuitState, now)
    /\ hist' = [consec |-> hist.consec + 1, lastFailAt |-> now]
    /\ gen' = [gen EXCEPT !.pc = "fallback", !.outcome = kind, !.nFail = @ + 1]
    /\ UNCHANGED <<call, menu, profile, targets, now, foodCache, mealCache, offMode, flips, inflight, srch>>

RECURSIVE OrphanRequests(_)
OrphanRequests(queries) ==
    IF queries = <<>> THEN <<>>
    ELSE <<Request("orphan", "findOrCreateFood", Head(queries))>> \o OrphanRequests(Tail(queries))

\* generateMealPlan from recordSuccess() on, parseMeals having settled as parsed
HandleParsed(parsed) ==
    /\ Len(inflight) + Len(parsed.orphans) <= MaxInflight
    /\ foodCache' = parsed.cache
    /\ inflight' = inflight \o OrphanRequests(parsed.orphans)
    /\ IF parsed.status = "rejected"
       THEN /\ circuitState' = recordFailure(recordSuccess(circuitState), now)
            /\ hist' = [consec |-> 1, lastFailAt |-> now]
            /\ gen' = [gen EXCEPT !.pc = "fallback", !.outcome = "ok",
                                  !.parse = "rejected", !.nSucc = @ + 1, !.nFail = @ + 1]
            /\ UNCHANGED mealCache
       ELSE /\ circuitState' = recordSuccess(circuitState)
            /\ hist' = [hist EXCEPT !.consec = 0]
            /\ IF NoMeals(parsed)
               THEN /\ gen' = [gen EXCEPT !.pc = "fallback", !.outcome = "ok",
                                          !.parse = IF parsed.status = "null"
                                                    THEN "null" ELSE "empty",
                                          !.nSucc = @ + 1]
                    /\ UNCHANGED mealCache
               ELSE /\ mealCache' = CacheInsert(mealCache, gen.key, parsed.meals)
                    /\ gen' = [gen EXCEPT !.pc = "done", !.outcome = "ok",
                                          !.parse = "meals", !.source = "ai",
                                          !.nSucc = @ + 1, !.result = parsed.meals]

\* The backend answers with a success status and body b; the responses to the
\* parser's lookups arrive in the order perm
GenFetchOk(b, perm) ==
    /\ gen.pc = "fetch"
    /\ HandleParsed(parseMeals(ResponseBodies[b], foodCache, offMode = "up", perm))
    /\ UNCHANGED <<call, menu, profile, targets, now, offMode, flips, srch>>

\* return await generateFallbackMeals(maxPrepTime)
ReturnFallback(built) ==
    /\ foodCache' = built.cache
    /\ gen' = [gen EXCEPT !.pc = "done", !.source = "fallback", !.result = built.meals]

\* Variant of GenFallback that also stores the plan it built (sensitivity of C2)
GenFallbackStoring ==
    /\ gen.pc = "fallback"
    /\ ReturnFallback(generateFallbackMeals(foodCache, gen.maxPrepTime, offMode = "up"))
    /\ mealCache' = CacheInsert(mealCache, gen.key, gen'.result)
    /\ UNCHANGED <<call, menu, profile, targets, now, circuitState, offMode, flips, inflight, srch, hist>>

\* generateFallbackMeals(maxPrepTime) and the return of its plan
GenFallback ==
    /\ gen.pc = "fallback"
    /\ ReturnFallback(generateFallbackMeals(foodCache, gen.maxPrepTime, offMode = "up"))
    /\ UNCHANGED <<call, menu, profile, targets, now, circuitState, mealCache, offMode, flips, inflight, srch, hist>>

\* The response to a lookup whose parseMeals call has already rejected
OrphanResolve(i) ==
    /\ inflight[i].owner = "orphan"
    /\ foodCache' = IF offMode = "up" THEN FoodCacheAfterOk(foodCache, inflight[i].query)
                    ELSE foodCache
    /\ inflight' = RemoveAt(inflight, i)
    /\ UNCHANGED <<call, menu, profile, targets, now, circuitState, mealCache, offMode, flips, srch, gen, hist>>

(***************************************************************************)
(* Environment                                                             *)
(***************************************************************************)
\* Time passes.  The program reads the clock when a call starts and when a
\* backend request fails, so the clock moves while the main loop is at its menu
\* or awaits the backend.
Tick ==
    /\ gen.pc \in {"idle", "done", "fetch"}
    /\ now + TickMs <= MaxNow
    /\ now' = now + TickMs
    /\ UNCHANGED <<call, menu, profile, targets, circuitState, foodCache, mealCache, offMode, flips, inflight, srch, gen, hist>>

OffFlip ==
    /\ flips < MaxFlips
    /\ flips' = flips + 1
    /\ offMode' = IF offMode = "up" THEN "down" ELSE "up"
    /\ UNCHANGED <<call, menu, profile, targets, now, circuitState, foodCache, mealCache, inflight, srch, gen, hist>>

\* A food cache after WarmFill successful searches for the terms k1, k2, ...
WarmFoodCache == [i \in 1..WarmFill |-> [key |-> "k" \o ToString(i), val |-> <<>>]]

InitCommon ==
    /\ now = 0
    /\ circuitState = [failures |-> 0, lastFailure |-> 0]
    /\ mealCache = <<>>
    /\ offMode \in {"up", "down"}
    /\ flips = 0
    /\ inflight = <<>>
    /\ srch = IdleSrch
    /\ gen = IdleGen
    /\ hist = [consec |-> 0, lastFailAt |-> 0]

\* main before its first menu prompt
InitMain ==
    /\ profile = None
    /\ targets = None
    /\ menu = IdleMenu

(***************************************************************************)
(* SpecFood: any sequence of food lookups, one after another, from an      *)
(* empty food cache or from one that earlier searches have filled          *)
(***************************************************************************)
InitFood ==
    /\ InitCommon
    /\ InitMain
    /\ call = NoCall
    /\ foodCache \in {<<>>, WarmFoodCache}

NextFood ==
    \/ \E fn \in LookupFns, term \in SearchTerms : SearchStart(fn, term)
    \/ \E i \in DOMAIN inflight : SearchOk(i)
    \/ \E i \in DOMAIN inflight, kind \in OffFailKinds : SearchFail(i, kind)
    \/ OffFlip

SpecFood == InitFood /\ [][NextFood]_vars

(***************************************************************************)
(* Spec: the main loop generating meal plans from a fresh process          *)
(***************************************************************************)
Init ==
    /\ InitCommon
    /\ InitMain
    /\ call = NoCall
    /\ foodCache = <<>>

Next ==
    \/ \E k \in DOMAIN GenInputs : GenerateStart(k)
    \/ \E kind \in BackendFailKinds : GenFetchFail(kind)
    \/ /\ gen.pc = "fetch"
       /\ \E b \in DOMAIN ResponseBodies :
          \E perm \in Perms(MissSlots(ResponseBodies[b].meals, foodCache)) : GenFetchOk(b, perm)
    \/ GenFallback
    \/ \E i \in DOMAIN inflight : OrphanResolve(i)
    \/ Tick
    \/ OffFlip

Spec == Init /\ [][Next]_vars

(***************************************************************************)
(* Properties of generateMealPlan, checked under Spec                      *)
(***************************************************************************)
PlanPcs == {"idle", "fetch", "fallback", "done"}

WellFormedMeal(meal) ==
    /\ meal.type \in VALID_TYPES
    /\ meal.prepTime >= 1
    /\ \A j \in DOMAIN meal.foods : meal.foods[j].grams >= 1

\* C1: whatever the backend did (connection error, timeout, non-success
\* status, success with an unparseable, empty or parseable response), a
\* generateMealPlan call ends by returning a list of at least one meal: the
\* call is never in a state other than its four positions, and a returned
\* plan is never empty.
C1_AlwaysReturnsPlan ==
    /\ gen.pc \in PlanPcs
    /\ (gen.pc = "done") =>
          /\ gen.source \in {"cache", "ai", "fallback"}
          /\ Len(gen.result) >= 1
          /\ \A m \in DOMAIN gen.result : WellFormedMeal(gen.result[m])

\* A call whose backend answered with a success status and an empty meal list
\* has returned the three fallback meals.
C1_Witness ==
    gen.pc = "done" /\ gen.outcome = "ok" /\ gen.parse = "empty" /\ Len(gen.result) = 3

\* C2: the plan cache changes only in the step in which a call whose backend
\* request succeeded and whose response parsed to at least one meal stores
\* that plan under its key; the step that returns a fallback plan leaves the
\* plan cache as it is, and no entry of the plan cache is an empty plan.
C2_CacheOnlyParsedPlans ==
    /\ [](\A i \in DOMAIN mealCache : Len(mealCache[i].val) >= 1)
    /\ [][ (mealCache' # mealCache =>
               (/\ gen.pc = "fetch" /\ gen'.pc = "done"
                /\ gen'.outcome = "ok" /\ gen'.parse = "meals" /\ gen'.source = "ai"
                /\ Len(gen'.result) >= 1
                /\ mealCache' = CacheInsert(mealCache, gen.key, gen'.result)))
            /\ ((gen'.pc = "done" /\ gen'.source = "fallback" /\ gen.pc = "fallback") =>
                  mealCache' = mealCache) ]_vars

\* A fallback plan has been returned after a backend failure while the plan
\* cache, filled by an earlier call, holds no entry for the key of this call.
C2_Witness ==
    /\ gen.pc = "done" /\ gen.source = "fallback" /\ gen.outcome \in BackendFailKinds
    /\ Len(mealCache) >= 1
    /\ ~CacheHas(mealCache, gen.key)

FallbackTypes == <<"breakfast", "lunch", "dinner">>
FallbackMinutes == <<15, 25, 30>>

\* C3: a call that ends without a parsed plan (breaker open, backend failure,
\* a response that yields no meals or whose parsing fails) returns exactly
\* three meals of types breakfast, lunch and dinner in that order, each with
\* four ingredients and with prepTime the smaller of maxPrepTime and 15, 25
\* and 30, whatever the food database answered.
C3_FallbackPlanShape ==
    gen.pc = "done" /\ gen.source \notin {"cache", "ai"} =>
       /\ gen.source = "fallback"
       /\ gen.parse # "meals"
       /\ Len(gen.result) = 3
       /\ \A m \in 1..3 :
             /\ gen.result[m].type = FallbackTypes[m]
             /\ Len(gen.result[m].foods) = 4
             /\ gen.result[m].prepTime = Min(gen.maxPrepTime, FallbackMinutes[m])

\* A fallback plan built for maxPrepTime 20 while the food database is down:
\* breakfast keeps its 15 minutes, lunch and dinner are cut to 20.
C3_Witness ==
    /\ gen.pc = "done" /\ gen.source = "fallback" /\ gen.maxPrepTime = 20
    /\ offMode = "down"
    /\ gen.result[1].prepTime = 15 /\ gen.result[3].prepTime = 20

\* A step in which a generateMealPlan call starts
CallStarts == gen.pc \in {"idle", "done"} /\ gen' # gen

\* C4: once three recordFailure calls have followed the last recordSuccess,
\* isCircuitOpen() is true at every instant less than 30 s after the latest
\* of them; with fewer than three it is false; and a step that records a
\* success and no failure leaves the failure count at 0 and the breaker closed.
C4_BreakerThreshold ==
    /\ []((hist.consec >= 3 /\ now - hist.lastFailAt < 30000)
             => isCircuitOpen(circuitState, now))
    /\ []((hist.consec < 3) => ~isCircuitOpen(circuitState, now))
    /\ [][ (gen'.nSucc = gen.nSucc + 1 /\ gen'.nFail = gen.nFail) =>
              (circuitState'.failures = 0 /\ ~isCircuitOpen(circuitState', now')) ]_vars

\* Three failures in a row, the last one 20 s ago: the breaker is still open.
C4_Witness ==
    /\ hist.consec = 3
    /\ now - hist.lastFailAt = 2 * TickMs
    /\ isCircuitOpen(circuitState, now)

\* C5: a call that starts while isCircuitOpen() is true issues no backend
\* request; when the plan cache has no entry for its key it goes to the
\* fallback builder, and it returns the fallback plan with the breaker state
\* untouched and still without a request.
C5_NoRequestWhenOpen ==
    [][ /\ (CallStarts /\ isCircuitOpen(circuitState, now)) =>
              (/\ gen'.pc # "fetch"
               /\ gen'.requests = 0
               /\ (~CacheHas(mealCache, gen'.key) => gen'.pc = "fallback"))
        /\ (gen.pc = "fallback" /\ gen.requests = 0 /\ gen' # gen) =>
              (/\ gen'.pc = "done" /\ gen'.source = "fallback" /\ gen'.requests = 0
               /\ circuitState' = circuitState) ]_vars

\* A call has returned the fallback plan without a request while the breaker
\* is open.
C5_Witness ==
    /\ gen.pc = "done" /\ gen.source = "fallback" /\ gen.requests = 0
    /\ isCircuitOpen(circuitState, now)

\* C6: when the backend attempt of a call ends in a connection error, the
\* 300 s timeout or a non-success status, that step adds exactly 1 to the
\* failure count and sets lastFailure to the current time, the call goes on
\* to the fallback builder, and nothing else of the call touches the breaker.
C6_OneFailureRecorded ==
    [][ /\ (gen.pc = "fetch" /\ gen'.outcome \in BackendFailKinds) =>
              (/\ circuitState'.failures = circuitState.failures + 1
               /\ circuitState'.lastFailure = now
               /\ gen'.pc = "fallback"
               /\ gen'.nFail = 1 /\ gen'.nSucc = 0)
        /\ (gen.pc = "fallback" /\ gen.outcome \in BackendFailKinds /\ gen' # gen) =>
              (/\ gen'.pc = "done" /\ gen'.source = "fallback"
               /\ gen'.nFail = 1 /\ gen'.nSucc = 0
               /\ circuitState' = circuitState) ]_vars

\* The backend request timed out at a time after 0 with one failure on
\* record: the count is now 2 and lastFailure is the current time.
C6_Witness ==
    /\ gen.pc = "fallback" /\ gen.outcome = "timeout"
    /\ now > 0
    /\ circuitState = [failures |-> 2, lastFailure |-> now]

\* C7: when the backend of a call answered with a success status, the failure
\* count is 0 from the moment the body is handled until the call returns,
\* whatever the body holds, and the call has recorded that one success and
\* no failure.
C7_SuccessLeavesNoFailure ==
    (gen.pc \in {"fallback", "done"} /\ gen.outcome = "ok") =>
       /\ circuitState.failures = 0
       /\ gen.nSucc = 1 /\ gen.nFail = 0

\* C8: a call whose key is in the plan cache returns the stored plan in its
\* first step, with no backend request, no record on the breaker and both
\* caches and the requests in flight unchanged, also while the breaker is
\* open; a plan returned from the cache is the plan the cache holds.
C8_CacheHitReturnsStored ==
    /\ []((gen.pc = "done" /\ gen.source = "cache") =>
            (CacheHas(mealCache, gen.key) /\ gen.result = CacheGet(mealCache, gen.key)))
    /\ [][ (CallStarts /\ CacheHas(mealCache, gen'.key)) =>
              (/\ gen'.pc = "done" /\ gen'.source = "cache"
               /\ gen'.result = CacheGet(mealCache, gen'.key)
               /\ gen'.requests = 0 /\ gen'.nFail = 0 /\ gen'.nSucc = 0
               /\ UNCHANGED <<circuitState, foodCache, mealCache, inflight, hist>>) ]_vars

\* A plan has been returned from the plan cache while the breaker is open.
C8_Witness ==
    /\ gen.pc = "done" /\ gen.source = "cache" /\ Len(gen.result) >= 1
    /\ isCircuitOpen(circuitState, now)

\* C14: whatever the response text holds, parseMeals completes with a meal
\* list or with null and never rejects: no generateMealPlan call sees its
\* parse end in a rejection.
C14_ParseNeverRejects ==
    gen.parse \in {"", "null", "empty", "meals"}

\* C21: once 30 s have passed since the last recorded failure isCircuitOpen()
\* is false although the failure count is still 3 or more, and the next call
\* that misses the plan cache attempts the backend; time passing never
\* changes the breaker state; if that attempt fails the breaker is open again
\* right after that one failure; and the count goes down only in a step that
\* records a success.
C21_CoolDownThenOneFailureReopens ==
    /\ []((circuitState.failures >= 3 /\ now - circuitState.lastFailure >= 30000)
             => ~isCircuitOpen(circuitState, now))
    /\ [][ /\ ((CallStarts /\ circuitState.failures >= 3
                   /\ now - circuitState.lastFailure >= 30000
                   /\ ~CacheHas(mealCache, gen'.key)) =>
                 (gen'.pc = "fetch" /\ gen'.requests = 1))
           /\ ((now' # now) => (circuitState' = circuitState))
           /\ ((gen.pc = "fetch" /\ gen'.outcome \in BackendFailKinds
                   /\ circuitState.failures >= 3) =>
                 (/\ circuitState'.failures = circuitState.failures + 1
                  /\ isCircuitOpen(circuitState', now')))
           /\ ((circuitState'.failures < circuitState.failures) =>
                 (gen'.nSucc = gen.nSucc + 1)) ]_vars

\* Three failures at time 0, 30 s of cool-down, and the attempt made then has
\* failed: four failures on record and the breaker open again.
C21_Witness ==
    /\ gen.pc = "fallback" /\ gen.outcome \in BackendFailKinds /\ gen.requests = 1
    /\ now = 30000
    /\ circuitState = [failures |-> 4, lastFailure |-> 30000]
    /\ isCircuitOpen(circuitState, now)

\* C22: a call issues at most one request to the backend: none on a plan-cache
\* hit or with the breaker open, and after a failed attempt it goes to the
\* fallback builder and returns without another request.
C22_AtMostOneRequest ==
    /\ [](gen.requests <= 1)
    /\ []((gen.pc = "done" /\ gen.source = "cache") => gen.requests = 0)
    /\ [][ /\ ((CallStarts /\ (CacheHas(mealCache, gen'.key)
                                \/ isCircuitOpen(circuitState, now))) =>
                 (gen'.requests = 0 /\ gen'.pc # "fetch"))
           /\ ((gen.pc = "fetch" /\ gen'.outcome \in BackendFailKinds) =>
                 (gen'.pc = "fallback" /\ gen'.requests = 1))
           /\ ((gen.pc = "fallback" /\ gen' # gen) =>
                 (gen'.pc = "done" /\ gen'.requests = gen.requests)) ]_vars

\* A call whose single request got a non-success status has returned the
\* fallback plan.
C22_Witness ==
    /\ gen.pc = "done" /\ gen.source = "fallback" /\ gen.outcome = "status"
    /\ gen.requests = 1 /\ gen.nFail = 1

\* C27: a call that finds the breaker open changes neither the failure count
\* nor lastFailure, from its start to the return of the fallback plan; no
\* backend attempt is under way while the breaker is open, and no step taken
\* while it is open changes the breaker state, so however many calls arrive
\* in the window, isCircuitOpen() is false once 30 s have passed since the
\* failure that opened it.
C27_RejectedCallsLeaveWindow ==
    /\ [](isCircuitOpen(circuitState, now) => gen.pc # "fetch")
    /\ []((hist.consec >= 3 /\ now - hist.lastFailAt >= 30000)
             => ~isCircuitOpen(circuitState, now))
    /\ [][ /\ ((CallStarts /\ isCircuitOpen(circuitState, now)) =>
                 (circuitState' = circuitState))
           /\ ((gen.pc = "fallback" /\ gen.requests = 0) =>
                 (circuitState' = circuitState))
           /\ (isCircuitOpen(circuitState, now) =>
                 (circuitState' = circuitState /\ hist' = hist)) ]_vars

\* The breaker opened at time 0; a call that arrived in the window has
\* returned the fallback plan without a request; 30 s after the opening
\* failure the breaker is closed with the three failures still on record.
C27_Witness ==
    /\ gen.pc = "done" /\ gen.source = "fallback" /\ gen.requests = 0
    /\ circuitState = [failures |-> 3, lastFailure |-> 0]
    /\ hist = [consec |-> 3, lastFailAt |-> 0]
    /\ now = 30000
    /\ ~isCircuitOpen(circuitState, now)

(***************************************************************************)
(* Properties of the food lookup, checked under SpecFood                   *)
(***************************************************************************)
\* A step in which a food lookup starts
SearchStarts == srch.pc # "wait" /\ srch'.pc # "idle" /\ (srch' # srch \/ inflight' # inflight)

\* The cache key the text of the claims gives a term: lowercased, trimmed
TermKey(term) == trim(toLowerCase(term))

NoDuplicateKeys(cache) ==
    \A i, j \in DOMAIN cache : cache[i].key = cache[j].key => i = j

\* C9: with the lookups run one after another, the food cache changes only by
\* the insertion of a key it does not hold; the new key goes last, and if the
\* cache held 50 entries exactly its first (oldest) entry is dropped and no
\* other.  A lookup whose lowercased, trimmed term is a key is answered from
\* the stored list with no request (searchOpenFoodFacts returns that list),
\* so every key is in normalized form and terms that normalize alike share it.
C9_FoodCacheFifoAndHits ==
    /\ [](/\ Len(foodCache) <= 50
          /\ NoDuplicateKeys(foodCache)
          /\ \A i \in DOMAIN foodCache : foodCache[i].key = TermKey(foodCache[i].key))
    /\ [][ /\ (foodCache' # foodCache) =>
              (/\ srch.pc = "wait" /\ srch'.pc = "done"
               /\ ~CacheHas(foodCache, TermKey(srch.query))
               /\ Len(foodCache') >= 1
               /\ foodCache'[Len(foodCache')].key = TermKey(srch.query)
               /\ SubSeq(foodCache', 1, Len(foodCache') - 1) =
                     (IF Len(foodCache) = 50 THEN Tail(foodCache) ELSE foodCache))
        /\ (SearchStarts /\ CacheHas(foodCache, TermKey(srch'.query))) =>
              (/\ srch'.pc = "done" /\ ~srch'.requested
               /\ inflight' = inflight /\ foodCache' = foodCache
               /\ (srch'.fn = "searchOpenFoodFacts" =>
                     srch'.result = CacheGet(foodCache, TermKey(srch'.query)))) ]_vars

\* The cache, filled to 50 entries, has lost its oldest key k1 to a later
\* insertion, and the lookup of " Tofu " has been answered from the entry
\* stored under "tofu" without a request.
C9_Witness ==
    /\ Len(foodCache) = 50 /\ ~CacheHas(foodCache, "k1") /\ foodCache[1].key = "k2"
    /\ srch.pc = "done" /\ srch.fn = "searchOpenFoodFacts" /\ srch.term = " Tofu "
    /\ ~srch.requested
    /\ srch.result = CacheGet(foodCache, "tofu")

\* The foods of the static table whose lowercased name contains the term
StaticMatches(term) ==
    SelectSeq(FALLBACK_FOODS, LAMBDA food : includes(toLowerCase(food.name), TermKey(term)))

\* C10: when the remote query fails (network error, 8 s timeout, non-success
\* status) the food cache is unchanged and searchOpenFoodFacts returns the
\* static foods whose lowercased name contains the lowercased, trimmed term;
\* the term is then still no key of the cache, and a lookup of a term that is
\* no key issues the request.
C10_FailureNotCached ==
    /\ []((srch.pc = "done" /\ srch.failed # "") =>
            ~CacheHas(foodCache, TermKey(srch.query)))
    /\ [][ /\ (srch.pc = "wait" /\ srch'.failed \in OffFailKinds) =>
              (/\ srch'.pc = "done"
               /\ foodCache' = foodCache
               /\ (srch.fn = "searchOpenFoodFacts" =>
                     srch'.result = StaticMatches(srch.query)))
        /\ (SearchStarts /\ ~CacheHas(foodCache, TermKey(srch'.query))) =>
              (/\ srch'.pc = "wait" /\ srch'.requested
               /\ Len(inflight') = Len(inflight) + 1
               /\ inflight'[Len(inflight')].query = srch'.query) ]_vars

\* The query for " Tofu " timed out with an empty cache: the call returned
\* the one static food whose name contains "tofu" and the cache is still empty.
C10_Witness ==
    /\ srch.pc = "done" /\ srch.fn = "searchOpenFoodFacts" /\ srch.term = " Tofu "
    /\ srch.failed = "timeout"
    /\ srch.result = <<FALLBACK_FOODS[1]>>
    /\ foodCache = <<>>

\* C11: a successful remote query whose records all fail the filter stores
\* the empty list under the lowercased, trimmed term; a searchFoods call for
\* a term whose entry is the empty list returns the static matches of the
\* term and issues no request.
C11_EmptyResultCached ==
    [][ /\ (srch.pc = "wait" /\ srch'.pc = "done" /\ srch'.failed = ""
              /\ foodsOfResponse(RemoteProducts(srch.query)) = <<>>) =>
              (/\ CacheHas(foodCache', TermKey(srch.query))
               /\ CacheGet(foodCache', TermKey(srch.query)) = <<>>)
        /\ (SearchStarts /\ srch'.fn = "searchFoods"
              /\ CacheHas(foodCache, TermKey(srch'.query))
              /\ CacheGet(foodCache, TermKey(srch'.query)) = <<>>) =>
              (/\ srch'.pc = "done" /\ ~srch'.requested
               /\ inflight' = inflight /\ foodCache' = foodCache
               /\ srch'.result = StaticMatches(srch'.query)) ]_vars

\* The query for " Tofu " succeeded with no usable record, so "tofu" maps to
\* the empty list; searchFoods("tofu") has then returned the static tofu
\* without a request.
C11_Witness ==
    /\ srch.pc = "done" /\ srch.fn = "searchFoods" /\ srch.term = "tofu"
    /\ ~srch.requested
    /\ CacheHas(foodCache, "tofu") /\ CacheGet(foodCache, "tofu") = <<>>
    /\ srch.result = <<FALLBACK_FOODS[1]>>

\* What findOrCreateFood is to return for the sanitized name q once the remote
\* lookup gave api: the first of api, else the first static match, else the
\* placeholder (macro values in tenths)
ExpectedFood(q, api) ==
    IF api # <<>> THEN api[1]
    ELSE IF StaticMatches(q) # <<>> THEN StaticMatches(q)[1]
    ELSE [name |-> q, protein |-> 80, carbs |-> 150, fat |-> 30, fiber |-> 50,
          calories |-> 1200]

\* C13: whatever the name and whatever the remote query does (answer from the
\* cache, success, failure), findOrCreateFood returns a Food: the first
\* result of searchFoods for the sanitized name, or the placeholder with that
\* name and protein 8, carbs 15, fat 3, fiber 5, calories 120.
C13_FindOrCreateAlwaysFood ==
    /\ []((srch.pc = "done" /\ srch.fn = "findOrCreateFood") =>
            DOMAIN srch.result = {"name", "protein", "carbs", "fat", "fiber", "calories"})
    /\ [][ (srch'.fn = "findOrCreateFood" /\ srch'.pc = "done" /\ srch' # srch) =>
              srch'.result =
                 ExpectedFood(sanitizeInput(srch'.term),
                    IF srch.pc # "wait"
                    THEN CacheGet(foodCache, TermKey(sanitizeInput(srch'.term)))
                    ELSE IF srch'.failed # ""
                         THEN StaticMatches(sanitizeInput(srch'.term))
                         ELSE foodsOfResponse(RemoteProducts(sanitizeInput(srch'.term)))) ]_vars

\* The remote query for "k1" succeeded with no record and the static table
\* has no match: the placeholder named "k1" was returned.
C13_Witness ==
    /\ srch.pc = "done" /\ srch.fn = "findOrCreateFood" /\ srch.term = "k1"
    /\ srch.requested /\ srch.failed = ""
    /\ srch.result = [name |-> "k1", protein |-> 80, carbs |-> 150, fat |-> 30,
                      fiber |-> 50, calories |-> 1200]

(***************************************************************************)
(* SpecProducts: the mapping and filtering of one successful response of   *)
(* the remote database (searchOpenFoodFacts between its fetch and its      *)
(* cache insertion), applied to bounded responses                          *)
(***************************************************************************)
\* The longest run of usable records a response of the model holds
MaxFillers == 16

ProbeNames == {None, Some("  "), Some(" Oat <bar> ")}
ProbeKcalDash == {None, Some(0), Some(1440)}
ProbeKcalUnder == {None, Some(620)}
ProbeProteins == {None, Some(29), Some(30), Some(-10)}
ProbeFibers == {None, Some(30)}

\* One record of a response: every combination of present, absent, zero,
\* negative and borderline fields, a record without nutriments and a null
ProbeProducts ==
    {Product(n, kd, ku, pr, Some(43), Some(-5), fi) :
        n \in ProbeNames, kd \in ProbeKcalDash, ku \in ProbeKcalUnder,
        pr \in ProbeProteins, fi \in ProbeFibers}
    \cup {ProductNoNutriments(Some("Bare")), None}

Filler(i) ==
    Product(Some("F" \o ToString(i)), Some(1000), None, Some(100), Some(100), Some(100),
            Some(100))

Fillers(k) == [i \in 1..k |-> Filler(i)]

InitProducts ==
    /\ InitCommon
    /\ InitMain
    /\ foodCache = <<>>
    /\ \E probe \in ProbeProducts, k \in 0..MaxFillers, front \in BOOLEAN :
          call = [fn |-> "foodsOfResponse",
                  arg |-> IF front THEN <<probe>> \o Fillers(k) ELSE Fillers(k) \o <<probe>>,
                  result |-> None]

ApplyFoodsOfResponse ==
    /\ call.fn = "foodsOfResponse"
    /\ call.result = None
    /\ call' = [call EXCEPT !.result = Some(foodsOfResponse(call.arg))]
    /\ UNCHANGED <<now, circuitState, foodCache, mealCache, offMode, flips, inflight, srch,
                   gen, hist, profile, targets, menu>>

NextProducts == ApplyFoodsOfResponse

SpecProducts == InitProducts /\ [][NextProducts]_vars

\* The values the text of C12 reads off a record
ClaimCalories(n) ==
    IF Truthy(n.energy_kcal_dash) THEN n.energy_kcal_dash[1] ELSE OrZero(n.energy_kcal_100g)

ClaimQualifies(product) ==
    /\ product # None
    /\ product[1].nutriments # None
    /\ product[1].product_name # None
    /\ trim(product[1].product_name[1]) # ""
    /\ LET n == product[1].nutriments[1]
       IN  /\ (ClaimCalories(n) > 0 \/ OrZero(n.proteins_100g) > 0)
           /\ (OrZero(n.proteins_100g) >= 30 \/ OrZero(n.fiber_100g) >= 30)

ClaimNames(products) ==
    LET kept == SelectSeq(products, ClaimQualifies)
        first == SubSeq(kept, 1, Min(15, Len(kept)))
    IN  [i \in DOMAIN first |-> sanitizeInput(trim(first[i][1].product_name[1]))]

\* C12: a successful response yields exactly the first 15, in response
\* order, of the records with a non-empty name, calories > 0 or protein > 0,
\* and protein >= 3 g or fiber >= 3 g; each returned food has five
\* non-negative macro values.
C12_FirstFifteenQualifying ==
    (call.fn = "foodsOfResponse" /\ call.result # None) =>
       LET foods == call.result[1]
       IN  /\ [i \in DOMAIN foods |-> foods[i].name] = ClaimNames(call.arg)
           /\ \A i \in DOMAIN foods :
                 /\ foods[i].protein >= 0 /\ foods[i].carbs >= 0 /\ foods[i].fat >= 0
                 /\ foods[i].fiber >= 0 /\ foods[i].calories >= 0

(***************************************************************************)
(* SpecParse: parseMeals applied to decoded meal lists of valid shape, the *)
(* food cache empty and the lookups answered in the order they were issued *)
(***************************************************************************)
\* The longest meal list and the longest instruction list of the model
MaxMeals == 7
MaxInstructions == 7

TypeInputs ==
    <<JStr("breakfast"), JStr("lunch"), JStr("dinner"), JStr("snack"), JAbsent,
      JStr("brunch"), JNum(3)>>

\* Meal i of a list: its own name and type, two ingredients whose order
\* depends on i, and k instructions
ShapedMeal(i, grams, prepTime, k) ==
    MealObj(JStr("M" \o ToString(i)), TypeInputs[((i - 1) % Len(TypeInputs)) + 1],
            JArr(IF i % 2 = 1
                 THEN << FoodObj(JStr("tofu"), grams), FoodObj(JStr("kale"), grams) >>
                 ELSE << FoodObj(JStr("kale"), grams), FoodObj(JStr("tempeh"), grams) >>),
            prepTime,
            JArr([j \in 1..k |-> JStr(" Step " \o ToString(j))]))

InitParse ==
    /\ InitCommon
    /\ InitMain
    /\ foodCache = <<>>
    /\ \E n \in 0..MaxMeals,
          grams \in {JAbsent, JNull, JStr("x"), JNum(-5), JNum(0), JNum(1), JNum(200),
                     JNum(50000)},
          prepTime \in {JAbsent, JNum(0), JNum(1), JNum(30), JNum(500)},
          k \in {0, 2, 6, MaxInstructions} :
          call = [fn |-> "parseMeals",
                  arg |-> [kind |-> "meals",
                           meals |-> [i \in 1..n |-> ShapedMeal(i, grams, prepTime, k)]],
                  result |-> None]

ParseResult(parsed) == Some([status |-> parsed.status, meals |-> parsed.meals])

ApplyParseMeals ==
    /\ call.fn = "parseMeals"
    /\ call.result = None
    /\ call' = [call EXCEPT !.result =
                  ParseResult(parseMeals(call.arg, foodCache, offMode = "up",
                                         [i \in DOMAIN Issued(call.arg.meals) |-> i]))]
    /\ UNCHANGED <<now, circuitState, foodCache, mealCache, offMode, flips, inflight, srch,
                   gen, hist, profile, targets, menu>>

SpecParse == InitParse /\ [][ApplyParseMeals]_vars

(***************************************************************************)
(* Properties of the parser, checked under SpecParse                       *)
(***************************************************************************)
ParseDone == call.fn = "parseMeals" /\ call.result # None
MealsIn == call.arg.meals
MealsOut == call.result[1].meals

\* The quantity the statement names for a decoded value v: v clamped to
\* [lo, hi] when v is a number, d otherwise
ClaimedQuantity(v, lo, hi, d) ==
    IF Tag(v) = "num" THEN Max(lo, Min(hi, v[2])) ELSE d

\* C15: every parsed ingredient's grams equal the input clamped to [1, 1000]
\* when the input is a number (50000 gives 1000, 0 gives 1) and 100 when it
\* is not; every parsed meal's prepTime equals the input clamped to [5, 120]
\* when it is a number (500 gives 120, 1 gives 5) and 20 when it is not.
C15_ClampedQuantities ==
    ParseDone =>
        \A i \in 1..Len(MealsOut) :
            /\ MealsOut[i].prepTime = ClaimedQuantity(Prop(MealsIn[i], "prepTime"), 5, 120, 20)
            /\ \A j \in 1..Len(MealsOut[i].foods) :
                   MealsOut[i].foods[j].grams =
                       ClaimedQuantity(Prop(FoodsList(MealsIn[i])[j], "grams"), 1, 1000, 100)

\* The food the lookup of a decoded ingredient name gives while the food
\* cache is empty: from the remote database when it answers, from the static
\* table when it does not
LookedUp(nameV) ==
    ExpectedFood(sanitizeInput(nameV[2]),
                 IF offMode = "up"
                 THEN foodsOfResponse(RemoteProducts(sanitizeInput(nameV[2])))
                 ELSE StaticMatches(sanitizeInput(nameV[2])))

\* C16: a decoded list of n meals of valid shape gives exactly min(n, 6)
\* meals in input order, each with the input's ingredients in input order, a
\* type among breakfast, lunch, dinner, snack (an absent or invalid type
\* becomes snack) and at most 6 instructions, the first ones of the input.
C16_MealsInInputOrder ==
    ParseDone =>
        /\ call.result[1].status \in {"meals", "empty"}
        /\ Len(MealsOut) = Min(Len(MealsIn), 6)
        /\ \A i \in 1..Len(MealsOut) :
            LET typeV == Prop(MealsIn[i], "type")
                foodsV == FoodsList(MealsIn[i])
                instrV == Prop(MealsIn[i], "instructions")[2]
            IN  /\ MealsOut[i].name = Prop(MealsIn[i], "name")[2]
                /\ MealsOut[i].type \in {"breakfast", "lunch", "dinner", "snack"}
                /\ MealsOut[i].type =
                      IF typeV \in {JStr("breakfast"), JStr("lunch"), JStr("dinner"), JStr("snack")}
                      THEN typeV[2] ELSE "snack"
                /\ Len(MealsOut[i].foods) = Len(foodsV)
                /\ \A j \in 1..Len(foodsV) :
                       MealsOut[i].foods[j].food = LookedUp(Prop(foodsV[j], "name"))
                /\ Len(MealsOut[i].instructions) = Min(Len(instrV), 6)
                /\ \A j \in 1..Len(MealsOut[i].instructions) :
                       MealsOut[i].instructions[j] = trim(instrV[j][2])

\* Seven meals of seven instructions each went in and six came out; the sixth
\* had the type "brunch" and is a snack, and the two ingredients of the
\* first meal are different foods.
C16_Witness ==
    /\ ParseDone
    /\ Len(MealsIn) = MaxMeals
    /\ Len(MealsOut) = 6
    /\ Prop(MealsIn[6], "type") = JStr("brunch")
    /\ MealsOut[6].type = "snack"
    /\ Len(Prop(MealsIn[1], "instructions")[2]) = MaxInstructions
    /\ Len(MealsOut[1].instructions) = 6
    /\ MealsOut[1].foods[1].food # MealsOut[1].foods[2].food
    /\ MealsOut[1].foods[1].food # MealsOut[2].foods[1].food

(***************************************************************************)
(* calculateTargets.  Weight and height are held in tenths (kg/10, cm/10); *)
(* the arithmetic is exact: bmr is carried as 8 * bmr, the activity        *)
(* multiplier as 40 * multiplier and the goal factor as 20 * factor.       *)
(***************************************************************************)
ActivityLevels == <<"sedentary", "low", "moderate", "high">>
Goals == {"recomp", "maintain", "gain"}

isValidAgeYr(age) == age >= 18 /\ age <= 100
isValidWeightKg(weight) == weight >= 300 /\ weight <= 3000
isValidHeightCm(height) == height >= 1200 /\ height <= 2500

\* Variant of MathRound that rounds down (sensitivity of C18)
MathFloor(n, d) == n \div d

\* Math.round(n / d) for d > 0: the nearest integer, a half rounded up
MathRound(n, d) == (2 * n + d) \div (2 * d)

\* 8 * bmr
bmrTimes8(p) ==
    8 * p.weight + 5 * p.height - 40 * p.age - 8 * 161

\* Variant of multiplierTimes40 with one factor for low and moderate
\* (sensitivity of C19)
multiplierFlat(activityLevel) ==
    IF activityLevel = "sedentary" THEN 48
    ELSE IF activityLevel = "high" THEN 69
    ELSE 62

\* 40 * multiplier: 1.2, 1.375, 1.55, 1.725, and 1.55 for anything else
multiplierTimes40(activityLevel) ==
    IF activityLevel = "sedentary" THEN 48
    ELSE IF activityLevel = "low" THEN 55
    ELSE IF activityLevel = "moderate" THEN 62
    ELSE IF activityLevel = "high" THEN 69
    ELSE 62

TargetsOf(calories, protein, carbs) ==
    [calories |-> calories,
     protein |-> protein,
     carbs |-> carbs,
     fat |-> MathRound(calories - protein * 4 - carbs * 4, 9),
     fiber |-> Max(35, MathRound(calories, 50))]

calculateTargets(p) ==
    TargetsOf(MathRound(bmrTimes8(p) * multiplierTimes40(p.activityLevel)
                            * (IF p.goal = "recomp" THEN 19 ELSE 20),
                        8 * 40 * 20),
              MathRound(p.weight * 18, 100),
              MathRound(p.weight * 25, 100))

(***************************************************************************)
(* SpecTargets: calculateTargets applied to valid profiles                 *)
(***************************************************************************)
InitTargets ==
    /\ InitCommon
    /\ InitMain
    /\ foodCache = <<>>
    /\ \E age \in {18, 45, 50, 100},
          weight \in {300, 325, 650, 655, 1200, 3000},
          height \in {1200, 1600, 1650, 1655, 2500},
          level \in DOMAIN ActivityLevels, goal \in Goals :
          /\ isValidAgeYr(age) /\ isValidWeightKg(weight) /\ isValidHeightCm(height)
          /\ call = [fn |-> "calculateTargets",
                     arg |-> [age |-> age, weight |-> weight, height |-> height,
                              activityLevel |-> ActivityLevels[level], goal |-> goal],
                     result |-> None]

ApplyCalculateTargets ==
    /\ call.fn = "calculateTargets"
    /\ call.result = None
    /\ call' = [call EXCEPT !.result = Some(calculateTargets(call.arg))]
    /\ UNCHANGED <<now, circuitState, foodCache, mealCache, offMode, flips, inflight, srch,
                   gen, hist, profile, targets, menu>>

SpecTargets == InitTargets /\ [][ApplyCalculateTargets]_vars

(***************************************************************************)
(* Properties of calculateTargets, checked under SpecTargets               *)
(***************************************************************************)
TargetsDone == call.fn = "calculateTargets" /\ call.result # None

\* r is n / d rounded to the nearest integer, a half rounded up (d > 0)
IsRounded(r, n, d) == 2 * d * r - d <= 2 * n /\ 2 * n < 2 * d * r + d

\* C17: for every valid profile all five values calculateTargets returns
\* (calories, protein, carbs, fat, fiber) are non-negative.
C17_TargetsNonNegative ==
    TargetsDone =>
        /\ call.result[1].calories >= 0
        /\ call.result[1].protein >= 0
        /\ call.result[1].carbs >= 0
        /\ call.result[1].fat >= 0
        /\ call.result[1].fiber >= 0

\* C18: for every valid profile calories = round(BMR * activity factor *
\* (0.95 for recomp, else 1)) with BMR = 10*weight + 6.25*height - 5*age - 161,
\* protein = round(1.8*weight), carbs = round(2.5*weight),
\* fat = round((calories - 4*protein - 4*carbs)/9) and
\* fiber = max(35, round(calories/50)); age 45, weight 65, height 165,
\* moderate, recomp gives protein 117 and carbs 163.
C18_TargetFormulas ==
    TargetsDone =>
        LET p == call.arg
            t == call.result[1]
            factor1000 == CASE p.activityLevel = "sedentary" -> 1200
                            [] p.activityLevel = "low" -> 1375
                            [] p.activityLevel = "moderate" -> 1550
                            [] p.activityLevel = "high" -> 1725
            bmr80 == 80 * p.weight + 50 * p.height - 400 * p.age - 12880
        IN  /\ IsRounded(t.calories,
                         (bmr80 \div 10) * (factor1000 \div 25)
                             * (IF p.goal = "recomp" THEN 19 ELSE 20),
                         6400)
            /\ bmr80 % 10 = 0
            /\ IsRounded(t.protein, 18 * p.weight, 100)
            /\ IsRounded(t.carbs, 25 * p.weight, 100)
            /\ IsRounded(t.fat, t.calories - 4 * t.protein - 4 * t.carbs, 9)
            /\ \E r \in 0..t.fiber : IsRounded(r, t.calories, 50) /\ t.fiber = Max(35, r)
            /\ (p.age = 45 /\ p.weight = 650 /\ p.height = 1650
                  /\ p.activityLevel = "moderate" /\ p.goal = "recomp")
               => (t.protein = 117 /\ t.carbs = 163)

\* The targets of age 45, weight 65, height 165, moderate, recomp were
\* computed: 1907 kcal, protein 117, carbs 163, fat 87, fiber 38.
C18_Witness ==
    /\ TargetsDone
    /\ call.arg = [age |-> 45, weight |-> 650, height |-> 1650,
                   activityLevel |-> "moderate", goal |-> "recomp"]
    /\ call.result[1] =
          [calories |-> 1907, protein |-> 117, carbs |-> 163, fat |-> 87, fiber |-> 38]

\* C19: with age, weight, height and goal held fixed the calorie target
\* strictly increases along sedentary < low < moderate < high, rounding
\* included.
C19_CaloriesIncreaseWithActivity ==
    TargetsDone =>
        \A i, j \in DOMAIN ActivityLevels :
            (call.arg.activityLevel = ActivityLevels[i] /\ i < j) =>
                call.result[1].calories
                    < calculateTargets([call.arg EXCEPT !.activityLevel =
                                            ActivityLevels[j]]).calories

\* The smallest valid body at the greatest age, sedentary: 443 kcal under
\* recomp, below the 508 kcal the next level gives.
C19_Witness ==
    /\ TargetsDone
    /\ call.arg = [age |-> 100, weight |-> 300, height |-> 1200,
                   activityLevel |-> "sedentary", goal |-> "recomp"]
    /\ call.result[1].calories = 443
    /\ calculateTargets([call.arg EXCEPT !.activityLevel = "low"]).calories = 508

(***************************************************************************)
(* The main loop: the menu, the validated prompts and the profile setup.   *)
(* The prompts always deliver a string.  A call the loop makes             *)
(* (generateMealPlan, searchAndDisplayFoods) is one position of the loop   *)
(* here; what the call does to the caches and the breaker is Spec's and    *)
(* SpecFood's.                                                             *)
(***************************************************************************)
Digits == "0123456789"

RECURSIVE leadingDigits(_)
leadingDigits(s) ==
    IF Len(s) > 0 /\ includes(Digits, CharAt(s, 1))
    THEN CharAt(s, 1) \o leadingDigits(SubSeq(s, 2, Len(s)))
    ELSE ""

RECURSIVE decimalValue(_)
decimalValue(d) ==
    IF Len(d) = 0 THEN 0
    ELSE 10 * decimalValue(SubSeq(d, 1, Len(d) - 1))
         + (CHOOSE i \in 0..9 : CharAt(Digits, i + 1) = CharAt(d, Len(d)))

\* The string after leading white space and a sign
Unsigned(s) ==
    IF Len(trimStart(s)) > 0 /\ CharAt(trimStart(s), 1) \in {"-", "+"}
    THEN SubSeq(trimStart(s), 2, Len(trimStart(s)))
    ELSE trimStart(s)

Signed(s, n) ==
    IF Len(trimStart(s)) > 0 /\ CharAt(trimStart(s), 1) = "-" THEN 0 - n ELSE n

\* parseInt(s): the integer the string starts with, None for NaN
parseInt(s) ==
    IF leadingDigits(Unsigned(s)) = "" THEN None
    ELSE Some(Signed(s, decimalValue(leadingDigits(Unsigned(s)))))

\* The digits after the decimal point that follows the integer part d of body
FractionDigits(body, d) ==
    IF Len(body) > Len(d) /\ CharAt(body, Len(d) + 1) = "."
    THEN leadingDigits(SubSeq(body, Len(d) + 2, Len(body)))
    ELSE ""

\* parseFloat(s) in tenths, None for NaN; exact for the strings of the model,
\* which have at most one digit after the point and no exponent
parseFloat(s) ==
    IF leadingDigits(Unsigned(s)) = ""
       /\ FractionDigits(Unsigned(s), leadingDigits(Unsigned(s))) = ""
    THEN None
    ELSE Some(Signed(s,
             10 * decimalValue(leadingDigits(Unsigned(s)))
             + decimalValue(sliceStr(FractionDigits(Unsigned(s),
                                                    leadingDigits(Unsigned(s))), 1))))

isValidPrepTimeMin(minutes) == minutes >= 5 /\ minutes <= 120

\* The validator setupProfile and main hand to getValidatedInput for a field
validator(field, val) ==
    CASE field = "age" -> parseInt(val) # None /\ isValidAgeYr(parseInt(val)[1])
      [] field = "weight" -> parseFloat(val) # None /\ isValidWeightKg(parseFloat(val)[1])
      [] field = "height" -> parseFloat(val) # None /\ isValidHeightCm(parseFloat(val)[1])
      [] field = "maxTime" -> parseInt(val) # None /\ isValidPrepTimeMin(parseInt(val)[1])

\* prefs.split(",")
RECURSIVE split(_, _)
split(s, acc) ==
    IF Len(s) = 0 THEN <<acc>>
    ELSE IF CharAt(s, 1) = "," THEN <<acc>> \o split(SubSeq(s, 2, Len(s)), "")
    ELSE split(SubSeq(s, 2, Len(s)), acc \o CharAt(s, 1))

\* prefs.split(",").map(sanitizeInput).filter(Boolean)
preferencesOf(prefs) ==
    SelectSeq([i \in DOMAIN split(prefs, "") |-> sanitizeInput(split(prefs, "")[i])],
              LAMBDA x : x # "")

\* What the user may type at a prompt
PromptInputs == {"", "abc", " 45kg", "165.5"}
PrefInputs == {"", "tofu, <b>tempeh</b>,,"}

\* Variant of promptOutcome that gives up after the second invalid input
\* (sensitivity of C20)
promptOutcomeTwo(attempts, valid) ==
    IF valid THEN "returned"
    ELSE IF attempts + 1 < 2 THEN "prompt"
    ELSE "caught"

\* One turn of the loop of getValidatedInput, attempts invalid inputs already
\* counted: return the input, ask again, or throw (main catches it)
promptOutcome(attempts, valid) ==
    IF valid THEN "returned"
    ELSE IF attempts + 1 < 3 THEN "prompt"
    ELSE "caught"

\* getValidatedInput called for a field; before is the profile and the targets
\* main held when the menu action began
Prompting(action, field, answers, before) ==
    [pc |-> "prompt", action |-> action, field |-> field, attempts |-> 0,
     asked |-> <<>>, answers |-> answers, before |-> before]

AfterChoice(action) ==
    CASE action = "setup" -> Prompting("setup", "age", <<>>, <<profile, targets>>)
      [] action = "generate" ->
            IF profile = None \/ targets = None THEN IdleMenu
            ELSE Prompting("generate", "maxTime", <<>>, <<profile, targets>>)
      [] action = "search" ->
            [pc |-> "call", action |-> action, fn |-> "searchAndDisplayFoods",
             args |-> <<>>, before |-> <<profile, targets>>]
      [] action = "targets" ->
            [pc |-> "pause", action |-> action, before |-> <<profile, targets>>]
      [] action = "exit" -> [pc |-> "exited"]

\* showMenu answered
ShowMenu ==
    /\ menu.pc = "menu"
    /\ \E action \in {"setup", "generate", "search", "targets", "exit"} :
          menu' = AfterChoice(action)
    /\ UNCHANGED <<now, circuitState, foodCache, mealCache, offMode, flips, inflight, srch,
                   gen, hist, profile, targets, call>>

\* Input.prompt of getValidatedInput answered
AnswerPrompt ==
    /\ menu.pc = "prompt"
    /\ \E input \in PromptInputs :
          menu' = [menu EXCEPT
                     !.pc = promptOutcome(menu.attempts, validator(menu.field, input)),
                     !.attempts = IF validator(menu.field, input) THEN @ ELSE @ + 1,
                     !.asked = Append(@, input)]
    /\ UNCHANGED <<now, circuitState, foodCache, mealCache, offMode, flips, inflight, srch,
                   gen, hist, profile, targets, call>>

\* getValidatedInput has returned its input: the caller goes on to its next
\* prompt
InputReturned ==
    /\ menu.pc = "returned"
    /\ menu' = [menu EXCEPT
                  !.pc = IF menu.field = "height" THEN "select"
                         ELSE IF menu.field = "maxTime" THEN "prefs"
                         ELSE "prompt",
                  !.field = IF menu.field = "age" THEN "weight"
                            ELSE IF menu.field = "weight" THEN "height"
                            ELSE "",
                  !.attempts = 0,
                  !.asked = <<>>,
                  !.answers = Append(@, menu.asked[Len(menu.asked)])]
    /\ UNCHANGED <<now, circuitState, foodCache, mealCache, offMode, flips, inflight, srch,
                   gen, hist, profile, targets, call>>

\* Variant of SetupSelects that stores the profile and leaves the targets
\* as they were (sensitivity of C26)
SetupSelectsProfileOnly ==
    /\ menu.pc = "select"
    /\ \E level \in DOMAIN ActivityLevels, goal \in Goals :
          profile' = Some([age |-> parseInt(menu.answers[1])[1],
                           weight |-> parseFloat(menu.answers[2])[1],
                           height |-> parseFloat(menu.answers[3])[1],
                           activityLevel |-> ActivityLevels[level],
                           goal |-> goal])
    /\ menu' = [pc |-> "pause", action |-> "setup", before |-> menu.before]
    /\ UNCHANGED <<now, circuitState, foodCache, mealCache, offMode, flips, inflight, srch,
                   gen, hist, call, targets>>

\* The two Select prompts of setupProfile answered: setupProfile returns and
\* main stores the profile and its targets
SetupSelects ==
    /\ menu.pc = "select"
    /\ \E level \in DOMAIN ActivityLevels, goal \in Goals :
          profile' = Some([age |-> parseInt(menu.answers[1])[1],
                           weight |-> parseFloat(menu.answers[2])[1],
                           height |-> parseFloat(menu.answers[3])[1],
                           activityLevel |-> ActivityLevels[level],
                           goal |-> goal])
    /\ targets' = Some(calculateTargets(profile'[1]))
    /\ menu' = [pc |-> "pause", action |-> "setup", before |-> menu.before]
    /\ UNCHANGED <<now, circuitState, foodCache, mealCache, offMode, flips, inflight, srch,
                   gen, hist, call>>

\* The preferences prompt answered: main calls generateMealPlan
PrefsPrompt ==
    /\ menu.pc = "prefs"
    /\ \E prefs \in PrefInputs :
          menu' = [pc |-> "call", action |-> "generate", fn |-> "generateMealPlan",
                   args |-> <<targets[1], preferencesOf(prefs), parseInt(menu.answers[1])[1]>>,
                   before |-> menu.before]
    /\ UNCHANGED <<now, circuitState, foodCache, mealCache, offMode, flips, inflight, srch,
                   gen, hist, profile, targets, call>>

\* The call returns: without meals main goes back to the menu at once,
\* otherwise it shows the result and waits for Enter
CallReturns ==
    /\ menu.pc = "call"
    /\ \E meals \in BOOLEAN :
          menu' = IF menu.fn = "generateMealPlan" /\ ~meals THEN IdleMenu
                  ELSE [pc |-> "pause", action |-> menu.action, before |-> menu.before]
    /\ UNCHANGED <<now, circuitState, foodCache, mealCache, offMode, flips, inflight, srch,
                   gen, hist, profile, targets, call>>

\* "Press Enter to continue", at the end of an action or in the catch block
PressEnter ==
    /\ menu.pc \in {"pause", "caught"}
    /\ menu' = IdleMenu
    /\ UNCHANGED <<now, circuitState, foodCache, mealCache, offMode, flips, inflight, srch,
                   gen, hist, profile, targets, call>>

NextMenu ==
    \/ ShowMenu
    \/ AnswerPrompt
    \/ InputReturned
    \/ SetupSelects
    \/ PrefsPrompt
    \/ CallReturns
    \/ PressEnter

\* main before its first menu prompt; the remote services play no part here
InitMenu == Init /\ offMode = "up"

SpecMenu == InitMenu /\ [][NextMenu]_vars

(***************************************************************************)
(* Properties of the main loop, checked under SpecMenu                     *)
(***************************************************************************)
AllInvalid(field, inputs) == \A i \in DOMAIN inputs : ~validator(field, inputs[i])

\* C20: getValidatedInput prompts at most 3 times; it returns the first input
\* that passes the validator if there is one among the first 3, and raises
\* after the 3rd invalid input in a row; the raise ends only the menu action
\* under way (the loop goes on to the next menu prompt, the process does not
\* exit) and leaves the stored profile and targets as they were.
C20_ThreePromptsThenAbort ==
    /\ [](menu.pc = "prompt" =>
            /\ Len(menu.asked) = menu.attempts
            /\ menu.attempts < 3
            /\ AllInvalid(menu.field, menu.asked))
    /\ [](menu.pc = "returned" =>
            /\ Len(menu.asked) \in 1..3
            /\ validator(menu.field, menu.asked[Len(menu.asked)])
            /\ AllInvalid(menu.field, SubSeq(menu.asked, 1, Len(menu.asked) - 1)))
    /\ [](menu.pc = "caught" =>
            /\ Len(menu.asked) = 3
            /\ AllInvalid(menu.field, menu.asked)
            /\ <<profile, targets>> = menu.before)
    /\ [][ (menu.pc = "caught" /\ menu' # menu) =>
              (menu'.pc = "menu" /\ profile' = profile /\ targets' = targets) ]_vars

\* A profile is stored, and a later setup was given a valid age and then
\* three invalid weights: the error is caught and the profile is the stored one.
C20_Witness ==
    /\ menu.pc = "caught"
    /\ menu.action = "setup"
    /\ menu.field = "weight"
    /\ menu.asked = <<"abc", "", "abc">>
    /\ menu.answers = <<" 45kg">>
    /\ profile # None
    /\ <<profile, targets>> = menu.before

\* C26: at every position of the main loop profile is unset exactly when
\* targets is unset, and when both are set targets = calculateTargets(profile);
\* generateMealPlan is called only with both set, and with those targets; a
\* setup that is under way or has aborted has left both at the values they
\* had when it began.
C26_ProfileAndTargetsTogether ==
    /\ (profile = None) <=> (targets = None)
    /\ (profile # None) => (targets[1] = calculateTargets(profile[1]))
    /\ (menu.pc = "call" /\ menu.fn = "generateMealPlan") =>
          (profile # None /\ targets # None /\ menu.args[1] = targets[1])
    /\ (menu.pc \in {"prompt", "returned", "select", "caught"} /\ menu.action = "setup") =>
          (<<profile, targets>> = menu.before)

\* generateMealPlan is being called with the targets of the stored profile of
\* age 45, and with the preferences the prompt's answer was split into.
C26_Witness ==
    /\ menu.pc = "call" /\ menu.fn = "generateMealPlan"
    /\ profile # None /\ profile[1].age = 45
    /\ menu.args[1] = calculateTargets(profile[1])
    /\ menu.args[2] = <<"tofu", "btempeh/b">>

(***************************************************************************)
(* SpecCaches: generateMealPlan calls interleaved with lookups that run    *)
(* side by side, as the branches of the Promise.all of parseMeals do, each *)
(* response arriving in a step of its own; both caches start nearly full.  *)
(***************************************************************************)
\* The lookups under way side by side, and the plans stored by earlier calls
MaxParallel == 2
WarmPlans == 49

WarmMealCache ==
    [i \in 1..WarmPlans |->
        [key |-> "p" \o ToString(i),
         val |-> << [name |-> "Meal", type |-> "snack", foods |-> <<>>, prepTime |-> 5,
                     instructions |-> <<>>] >>]]

\* One branch calls findOrCreateFood(term): searchOpenFoodFacts answers from
\* the Map or issues its request
ParallelLookup(term) ==
    /\ Len(inflight) < MaxParallel
    /\ inflight' = IF CacheHit(foodCache, sanitizeInput(term)) THEN inflight
                   ELSE Append(inflight, Request("parallel", "findOrCreateFood",
                                                 sanitizeInput(term)))
    /\ UNCHANGED <<call, menu, profile, targets, now, circuitState, foodCache, mealCache,
                   offMode, flips, srch, gen, hist>>

\* Variant of ParallelArrival that also records a success on the breaker
\* (sensitivity of C25)
ParallelArrivalRecording(i) ==
    /\ inflight[i].owner = "parallel"
    /\ foodCache' = IF offMode = "up" THEN FoodCacheAfterOk(foodCache, inflight[i].query)
                    ELSE foodCache
    /\ inflight' = RemoveAt(inflight, i)
    /\ circuitState' = recordSuccess(circuitState)
    /\ UNCHANGED <<call, menu, profile, targets, now, mealCache, offMode, flips, srch,
                   gen, hist>>

\* The response to the request of one branch arrives: searchOpenFoodFacts
\* stores the foods on success and stores nothing on failure
ParallelArrival(i) ==
    /\ inflight[i].owner = "parallel"
    /\ foodCache' = IF offMode = "up" THEN FoodCacheAfterOk(foodCache, inflight[i].query)
                    ELSE foodCache
    /\ inflight' = RemoveAt(inflight, i)
    /\ UNCHANGED <<call, menu, profile, targets, now, circuitState, mealCache, offMode,
                   flips, srch, gen, hist>>

InitCaches ==
    /\ now = 0
    /\ circuitState = [failures |-> 0, lastFailure |-> 0]
    /\ foodCache = WarmFoodCache
    /\ mealCache = WarmMealCache
    /\ offMode \in {"up", "down"}
    /\ flips = 0
    /\ inflight = <<>>
    /\ srch = IdleSrch
    /\ gen = IdleGen
    /\ hist = [consec |-> 0, lastFailAt |-> 0]
    /\ InitMain
    /\ call = NoCall

\* The calls and the backend answers of this specification: two plan keys,
\* one kind of failure, and the bodies with no meal, with a plan, and with a
\* meal whose parsing fails after its lookups were issued
CacheGenInputs == {1, 3}
CacheBodies == {6, 7, 10}

NextCaches ==
    \/ \E k \in CacheGenInputs : GenerateStart(k)
    \/ GenFetchFail("status")
    \/ /\ gen.pc = "fetch"
       /\ \E b \in CacheBodies :
          \E perm \in Perms(MissSlots(ResponseBodies[b].meals, foodCache)) : GenFetchOk(b, perm)
    \/ GenFallback
    \/ \E i \in DOMAIN inflight : OrphanResolve(i)
    \/ \E term \in {"tofu", " Tofu ", "<TEMP> "} : ParallelLookup(term)
    \/ \E i \in DOMAIN inflight : ParallelArrival(i)

SpecCaches == InitCaches /\ [][NextCaches]_vars

(***************************************************************************)
(* Properties of the two caches, checked under SpecCaches                  *)
(***************************************************************************)
KeySet(cache) == {cache[i].key : i \in DOMAIN cache}

\* Going from cache before to cache after, an entry is lost only as part of
\* inserting a key that was not there into a cache at capacity, and it is the
\* oldest entry and the only one lost
EvictsOnlyForNewKey(before, after) ==
    (KeySet(before) \ KeySet(after) # {}) =>
        /\ Len(before) = CACHE_SIZE
        /\ Cardinality(KeySet(after) \ KeySet(before)) = 1
        /\ KeySet(before) \ KeySet(after) = {before[1].key}

\* A step in which the response to one food lookup arrives and nothing else
\* happens
OneArrival == gen' = gen /\ \E i \in DOMAIN inflight : inflight' = RemoveAt(inflight, i)

\* C24: however the lookups and the generateMealPlan calls interleave, each
\* cache holds at most CACHE_SIZE entries, and a cache loses an entry only as
\* part of inserting a key it does not hold while it is at capacity: the
\* oldest entry, one per insertion.
C24_BoundedFifoCaches ==
    /\ [](Len(foodCache) <= CACHE_SIZE /\ Len(mealCache) <= CACHE_SIZE)
    /\ [][ /\ (OneArrival => EvictsOnlyForNewKey(foodCache, foodCache'))
           /\ EvictsOnlyForNewKey(mealCache, mealCache') ]_vars

\* C25: the caches and the breaker are independent: the arrival of a lookup's
\* response and the fallback builder with its lookups leave the plan cache and
\* the breaker state as they are, and the step that stores a plan (evicting
\* the oldest plan at capacity) leaves the food cache as the parser's lookups
\* left it and changes the breaker by its recordSuccess only.
C25_CachesAndBreakerIndependent ==
    [][ /\ (OneArrival => UNCHANGED <<mealCache, circuitState, hist>>)
        /\ ((gen.pc = "fallback" /\ gen' # gen) => UNCHANGED <<mealCache, circuitState, hist>>)
        /\ ((foodCache' # foodCache /\ gen' = gen) => UNCHANGED <<mealCache, circuitState>>)
        /\ ((mealCache' # mealCache) =>
              (/\ circuitState' = recordSuccess(circuitState)
               /\ \E b \in DOMAIN ResponseBodies :
                  \E perm \in Perms(MissSlots(ResponseBodies[b].meals, foodCache)) :
                     /\ foodCache' = parseMeals(ResponseBodies[b], foodCache,
                                                offMode = "up", perm).cache
                     /\ mealCache' = CacheInsert(mealCache, gen.key, gen'.result))) ]_vars

\* The plan cache is at capacity and has just lost its oldest plan to the
\* plan of the call that returned, while the food cache, at capacity too,
\* still holds its oldest entry next to the "kale" the parser looked up.
C25_Witness ==
    /\ Len(mealCache) = CACHE_SIZE
    /\ mealCache[1].key = "p2"
    /\ gen.pc = "done" /\ gen.source = "ai"
    /\ mealCache[CACHE_SIZE].key = gen.key
    /\ Len(foodCache) = CACHE_SIZE
    /\ foodCache[1].key = "k1"
    /\ CacheHas(foodCache, "kale")
    /\ inflight = <<>>

(***************************************************************************)
(* SpecTimeout: the backend request of generateMealPlan under withTimeout. *)
(* `call` holds the withTimeout call: the state of its Promise.race, its   *)
(* timer, and the requests it gave up that are still on their way (fetch   *)
(* is not handed the abort signal, so a request outlives its timeout).     *)
(***************************************************************************)
MEAL_GENERATION_TIMEOUT_MS == 300000

\* The step of the clock, its last value, and the requests given up at once
LongTickMs == 150000
MaxLongNow == 600000
MaxAbandoned == 1

Abandoned == IF call.fn = "withTimeout" THEN call.late ELSE 0
RacePending == call.fn = "withTimeout" /\ call.race = "pending"

\* withTimeout up to its await: setTimeout and Promise.race([promise, aborted])
WithTimeoutStart ==
    /\ gen.pc = "fetch"
    /\ ~RacePending
    /\ call' = [fn |-> "withTimeout", race |-> "pending", timer |-> "armed",
                deadline |-> now + MEAL_GENERATION_TIMEOUT_MS, settles |-> 0,
                late |-> Abandoned]
    /\ UNCHANGED <<now, circuitState, foodCache, mealCache, offMode, flips, inflight, srch,
                   gen, hist, profile, targets, menu>>

\* The request is answered with a success status and body b before the timer
\* fires: the race settles with the response, the timer is cleared
TimedResponse(b, perm) ==
    /\ gen.pc = "fetch"
    /\ RacePending
    /\ call' = [call EXCEPT !.race = "value", !.timer = "cleared", !.settles = @ + 1]
    /\ HandleParsed(parseMeals(ResponseBodies[b], foodCache, offMode = "up", perm))
    /\ UNCHANGED <<menu, profile, targets, now, offMode, flips, srch>>

\* The request fails before the timer fires (the race settles with the error)
\* or is answered with a non-success status (the race settles with the
\* response and generateMealPlan throws): recordFailure in the catch block
TimedFailure(kind) ==
    /\ gen.pc = "fetch"
    /\ RacePending
    /\ circuitState.failures < MaxFailures
    /\ call' = [call EXCEPT !.race = IF kind = "network" THEN "error" ELSE "value",
                            !.timer = "cleared", !.settles = @ + 1]
    /\ circuitState' = recordFailure(circuitState, now)
    /\ hist' = [consec |-> hist.consec + 1, lastFailAt |-> now]
    /\ gen' = [gen EXCEPT !.pc = "fallback", !.outcome = kind, !.nFail = @ + 1]
    /\ UNCHANGED <<menu, profile, targets, now, foodCache, mealCache, offMode, flips,
                   inflight, srch>>

\* The timer fires with the request still pending: abort, the race rejects
\* with Error("Timeout"), and the request is left on its way
TimerFires ==
    /\ gen.pc = "fetch"
    /\ RacePending
    /\ now >= call.deadline
    /\ call.late < MaxAbandoned
    /\ circuitState.failures < MaxFailures
    /\ call' = [call EXCEPT !.race = "Timeout", !.timer = "fired", !.settles = @ + 1,
                            !.late = @ + 1]
    /\ circuitState' = recordFailure(circuitState, now)
    /\ hist' = [consec |-> hist.consec + 1, lastFailAt |-> now]
    /\ gen' = [gen EXCEPT !.pc = "fallback", !.outcome = "timeout", !.nFail = @ + 1]
    /\ UNCHANGED <<menu, profile, targets, now, foodCache, mealCache, offMode, flips,
                   inflight, srch>>

\* Variant of LateResponse that treats the late answer as a success of the
\* backend (sensitivity of C23)
LateResponseRecording ==
    /\ Abandoned > 0
    /\ call' = [call EXCEPT !.late = @ - 1]
    /\ circuitState' = recordSuccess(circuitState)
    /\ UNCHANGED <<now, foodCache, mealCache, offMode, flips, inflight, srch,
                   gen, hist, profile, targets, menu>>

\* A request given up by its withTimeout is answered or fails: the race has
\* settled already and nothing awaits the request
LateResponse ==
    /\ Abandoned > 0
    /\ call' = [call EXCEPT !.late = @ - 1]
    /\ UNCHANGED <<now, circuitState, foodCache, mealCache, offMode, flips, inflight, srch,
                   gen, hist, profile, targets, menu>>

\* Time passes while the main loop is at its menu or awaits the backend
LongTick ==
    /\ gen.pc \in {"idle", "done"} \/ RacePending
    /\ now + LongTickMs <= MaxLongNow
    /\ now' = now + LongTickMs
    /\ UNCHANGED <<call, menu, profile, targets, circuitState, foodCache, mealCache, offMode,
                   flips, inflight, srch, gen, hist>>

NextTimeout ==
    \/ \E k \in DOMAIN GenInputs : GenerateStart(k)
    \/ WithTimeoutStart
    \/ /\ RacePending
       /\ \E b \in {6, 7} :
          \E perm \in Perms(MissSlots(ResponseBodies[b].meals, foodCache)) :
             TimedResponse(b, perm)
    \/ \E kind \in {"network", "status"} : TimedFailure(kind)
    \/ TimerFires
    \/ GenFallback
    \/ LateResponse
    \/ LongTick

SpecTimeout == Init /\ [][NextTimeout]_vars

(***************************************************************************)
(* Properties of withTimeout, checked under SpecTimeout                    *)
(***************************************************************************)
\* C23: withTimeout settles exactly once, with whichever of the request and
\* the timer comes first: the response or the error of the request when it
\* settles before the timer fires (the timer is then cleared), otherwise
\* "Timeout", and not before the deadline.  A call whose request times out
\* records one failure and returns the fallback plan, and the later answer
\* of the request it gave up changes nothing: no success recorded, no plan
\* stored, the returned plan as it was.
C23_TimeoutSettlesOnce ==
    /\ [](call.fn = "withTimeout" =>
            /\ call.settles = (IF call.race = "pending" THEN 0 ELSE 1)
            /\ (call.race = "pending") <=> (call.timer = "armed")
            /\ (call.race = "Timeout") <=> (call.timer = "fired")
            /\ (call.race \in {"value", "error"}) <=> (call.timer = "cleared")
            /\ (call.race = "Timeout") => (now >= call.deadline))
    /\ []((gen.pc \in {"fallback", "done"} /\ gen.outcome = "timeout") =>
            (/\ call.race = "Timeout"
             /\ gen.nFail = 1 /\ gen.nSucc = 0
             /\ (gen.pc = "done" => (gen.source = "fallback" /\ Len(gen.result) = 3))
             /\ ~CacheHas(mealCache, gen.key)))
    /\ [][ /\ ((call.fn = "withTimeout" /\ call.race # "pending" /\ gen.pc # "fetch") =>
                 (call'.race = call.race /\ call'.settles = call.settles))
           /\ ((RacePending /\ call'.race = "Timeout") =>
                 (/\ circuitState' = recordFailure(circuitState, now)
                  /\ gen'.pc = "fallback"))
           /\ ((Abandoned > 0 /\ call'.late < call.late) =>
                 UNCHANGED <<circuitState, mealCache, foodCache, gen, hist>>) ]_vars

\* The request timed out 300 s after its start, the call returned the
\* fallback plan, and the request it gave up has been answered since: one
\* failure on record, nothing in the plan cache.
C23_Witness ==
    /\ call.fn = "withTimeout" /\ call.race = "Timeout" /\ call.late = 0
    /\ gen.pc = "done" /\ gen.source = "fallback" /\ gen.outcome = "timeout"
    /\ circuitState = [failures |-> 1, lastFailure |-> MEAL_GENERATION_TIMEOUT_MS]
    /\ mealCache = <<>>

====
